---- MODULE Spec2Model ----
(***************************************************************************)
(* A model of the Z80 simulator of src/z80.h: the instruction decoder      *)
(* (instructions_decoder), the execution handlers (processor) and the      *)
(* machine of src/tester.cpp that owns the memory image and the tick       *)
(* counter.  One Step is one call of processor::step().  The disassembler  *)
(* of z80.h shares the decoder; one Disassemble is one disassemble() call. *)
(***************************************************************************)
EXTENDS Integers, Sequences, FiniteSets, TLC

VARIABLES
    state,      \* processor_base::processor_state
    dstate,     \* instructions_decoder::decoder_state
    image,      \* machine::image, kept sparse: the non-zero bytes only
    ticks,      \* machine::ticks (trivial_ticks_counter)
    fault,      \* "none", or how the process died: "abort" / "assert"
    bus,        \* the bus events of the last step(), in order
    consumed,   \* instruction-stream bytes read by the last step()
    steps,      \* number of calls (step(), disassemble()) made so far
    last,       \* what the last step() started from
    instr,      \* the instruction in progress: where and when it began
    loaded,     \* the program and register preset the harness loaded
    stream,     \* the bytes the disassembler's on_read() has yet to return
    lines,      \* the disassembler's output since the instruction began
    calls       \* the last pair handler call and the handler calls it made

vars == <<state, dstate, image, ticks, fault, bus, consumed, steps, last,
          instr, loaded, stream, lines, calls>>

(***************************************************************************)
(* Bounds of the model.                                                    *)
(***************************************************************************)
MaxSteps == 4

\* the largest BC a block load is started with
MaxCount == 3

(***************************************************************************)
(* Integer helpers, z80.h lines 39-108.                                    *)
(***************************************************************************)
mask8 == 255
sign8_mask == 128
mask16 == 65535

RECURSIVE And(_, _)
And(a, b) ==
    IF a = 0 \/ b = 0 THEN 0
    ELSE (a % 2) * (b % 2) + 2 * And(a \div 2, b \div 2)

RECURSIVE Or(_, _)
Or(a, b) ==
    IF a = 0 THEN b
    ELSE IF b = 0 THEN a
    ELSE (IF a % 2 = 1 \/ b % 2 = 1 THEN 1 ELSE 0) + 2 * Or(a \div 2, b \div 2)

RECURSIVE Xor(_, _)
Xor(a, b) ==
    IF a = 0 THEN b
    ELSE IF b = 0 THEN a
    ELSE (((a % 2) + (b % 2)) % 2) + 2 * Xor(a \div 2, b \div 2)

\* n >> k and n << k on unsigned values
Shr(n, k) == n \div (2 ^ k)
Shl(n, k) == n * (2 ^ k)

\* The value of an unsigned expression that may have gone below zero.  The
\* code's unsigned types are 32 or 64 bits wide; the handlers only look at
\* bits 0..15 of such a value, and the low 30 bits are kept here.
UWrap(n) == n % 1073741824

\* n & mask8 and n & mask16 of an unsigned n are remainders
get_sign8(n) == (n \div sign8_mask) % 2 = 1
add8(a, b) == (a + b) % (mask8 + 1)
sub8(a, b) == UWrap(a - b) % (mask8 + 1)
inc8(n) == add8(n, 1)
dec8(n) == sub8(n, 1)
ror8(n) == Or(Shr(n, 1), Shl(n, 7)) % (mask8 + 1)
neg8(n) == (Xor(n, mask8) + 1) % (mask8 + 1)
get_low8(n) == n % (mask8 + 1)
get_high8(n) == Shr(n, 8) % (mask8 + 1)
make16(hi, lo) == Or(Shl(hi, 8), lo)
\* A variant of add16 without the mask.
add16_unmasked(a, b) == a + b

add16(a, b) == (a + b) % (mask16 + 1)
\* A variant of sub16 that stops at 0 instead of wrapping.
sub16_saturating(a, b) == IF a < b THEN 0 ELSE a - b

sub16(a, b) == UWrap(a - b) % (mask16 + 1)
inc16(n) == add16(n, 1)
\* A variant of dec16 that does not count.
dec16_stuck(n) == n

dec16(n) == sub16(n, 1)

(***************************************************************************)
(* Enumerations, z80.h lines 110-121.  reg, regp, regp2, alu, block_ld and *)
(* condition are the integers the decoder casts from the opcode fields.    *)
(***************************************************************************)
reg_b == 0
reg_c == 1
reg_d == 2
reg_e == 3
reg_h == 4
reg_l == 5
reg_at_hl == 6
reg_a == 7

regp_bc == 0
regp_de == 1
regp_hl == 2
regp_sp == 3

regp2_af == 3

alu_add == 0
alu_adc == 1
alu_sub == 2
alu_sbc == 3
alu_and == 4
alu_xor == 5
alu_or == 6
alu_cp == 7

\* index_regp is one of "hl", "ix", "iy"; instruction_prefix one of "none",
\* "cb", "ed"

(***************************************************************************)
(* Opcode fields, z80.h lines 495-506.                                     *)
(***************************************************************************)
x_mask == 192
y_mask == 56
z_mask == 7
p_mask == 48
q_mask == 8
get_y_part(op) == Shr(And(op, y_mask), 3)
get_z_part(op) == And(op, z_mask)
get_p_part(op) == Shr(And(op, p_mask), 4)

(***************************************************************************)
(* Flag masks and flag helpers, z80.h lines 715-777.                       *)
(***************************************************************************)
sf_mask == 128
zf_mask == 64
yf_mask == 32
hf_mask == 16
xf_mask == 8
pf_mask == 4
nf_mask == 2
cf_mask == 1

zf_ari(n) == IF n = 0 THEN zf_mask ELSE 0
hf_ari(r, a, b) == And(Xor(Xor(r, a), b), hf_mask)
hf_dec(n) == IF And(n, 15) = 15 THEN hf_mask ELSE 0

\* A variant of hf_inc that never reports a half carry.
hf_inc_never(n) == 0

hf_inc(n) == IF And(n, 15) = 0 THEN hf_mask ELSE 0
pf_ari(r, a, b) ==
    LET x == Xor(Xor(r, a), b)
    IN  And(Xor(Shr(x, 6), Shr(x, 5)), pf_mask)

\* A variant of pf_log that reports odd parity.
pf_log_odd(n) == IF n % 2 = 1 THEN pf_mask ELSE 0

pf_log(n) ==
    LET pf_log4(k) == And(38505, Shl(1, And(k, 15))) # 0
    IN  IF pf_log4(n) = pf_log4(Shr(n, 4)) THEN pf_mask ELSE 0
pf_dec(n) == IF n = 127 THEN pf_mask ELSE 0
pf_inc(n) == IF n = 128 THEN pf_mask ELSE 0

\* A variant of cf_ari that never reports a carry.
cf_never(c) == 0

cf_ari(c) == IF c THEN cf_mask ELSE 0

(***************************************************************************)
(* The machine a handler works on: the variables as one record m, with two *)
(* more fields: m.v, the value the last read (a bus read cycle, a read of  *)
(* the instruction stream, on_get_r, on_pop) returned, and m.op, the       *)
(* opcode byte on_fetch returned.  m.bus lists the bus events of the step: *)
(* [ev, a, v] with ev one of "addr", "read", "write", "tick", "lra" (the   *)
(* store to last_read_addr) and "out".                                     *)
(***************************************************************************)
\* machine::at (tester.cpp): the byte at addr; bytes never stored are 0
at(img, addr) == IF addr \in DOMAIN img THEN img[addr] ELSE 0

\* at(addr) = static_cast<least_u8>(n)
Poke(img, addr, n) ==
    [x \in (IF n % 256 = 0 THEN DOMAIN img \ {addr}
                           ELSE DOMAIN img \cup {addr}) |->
        IF x = addr THEN n % 256 ELSE img[x]]

tick(m, t) ==
    [m EXCEPT !.ticks = @ + t,
              !.bus = Append(@, [ev |-> "tick", a |-> 0, v |-> t])]

on_set_addr_bus(m, addr) ==
    [m EXCEPT !.bus = Append(@, [ev |-> "addr", a |-> addr, v |-> 0])]

\* A variant of AssertFail for an assert that does nothing.
assert_skipped(m) == m

\* std::abort() after "Unknown opcode", and a failed assert(0)
Abort(m) == [m EXCEPT !.fault = "abort"]
AssertFail(m) == [m EXCEPT !.fault = "assert"]

(***************************************************************************)
(* Bus cycles, z80.h lines 1545-1623.                                      *)
(***************************************************************************)
\* b = on_access(addr), the byte read, is left in m.v
Accessed(m, addr) ==
    [m EXCEPT !.v = at(m.image, addr),
              !.bus = Append(@, [ev |-> "read", a |-> addr,
                                 v |-> at(m.image, addr)])]

\* state.last_read_addr = addr
Recorded(m, addr) ==
    [m EXCEPT !.state.last_read_addr = addr,
              !.bus = Append(@, [ev |-> "lra", a |-> addr, v |-> 0])]

on_fetch_cycle(m, addr) ==
    Recorded(tick(on_set_addr_bus(tick(Accessed(on_set_addr_bus(m, addr),
                                                 addr), 2),
                                  m.state.ir), 2), addr)

on_5t_fetch_cycle(m) == tick(m, 1)
on_6t_fetch_cycle(m) == tick(m, 2)

\* A variant of the read cycles that stores last_read_addr before ticking.
read_cycle_recording_first(m, addr, t) ==
    tick(Recorded(Accessed(on_set_addr_bus(m, addr), addr), addr), t)

\* on_3t_read_cycle, on_4t_read_cycle and on_5t_read_cycle differ in t only
ReadCycle(m, addr, t) ==
    Recorded(tick(Accessed(on_set_addr_bus(m, addr), addr), t), addr)

on_3t_read_cycle(m, addr) == ReadCycle(m, addr, 3)
on_4t_read_cycle(m, addr) == ReadCycle(m, addr, 4)
on_5t_read_cycle(m, addr) == ReadCycle(m, addr, 5)

\* on_3t_write_cycle and on_5t_write_cycle differ in t only
WriteCycle(m, addr, n, t) ==
    tick([on_set_addr_bus(m, addr) EXCEPT
             !.image = Poke(@, addr, n),
             !.bus = Append(@, [ev |-> "write", a |-> addr, v |-> n])],
         t)

on_3t_write_cycle(m, addr, n) == WriteCycle(m, addr, n, 3)
on_5t_write_cycle(m, addr, n) == WriteCycle(m, addr, n, 5)

on_3t_exec_cycle(m) == tick(m, 3)
on_4t_exec_cycle(m) == tick(m, 4)
on_5t_exec_cycle(m) == tick(m, 5)

on_output_cycle(m, addr, b) ==
    tick([m EXCEPT !.bus = Append(@, [ev |-> "out", a |-> addr, v |-> b])], 4)

(***************************************************************************)
(* Reads of the instruction stream, z80.h lines 1538-1543 and 1625-1662:   *)
(* the byte at PC is read and PC advances; the value is left in m.v.       *)
(***************************************************************************)
\* set_pc_on_...(inc16(pc)) after a byte of the stream was read
Streamed(m) ==
    [m EXCEPT !.state.pc = inc16(@), !.consumed = @ + 1]

on_fetch(m) ==
    LET Fetched(g) == [g EXCEPT !.op = g.v]
    IN  Fetched(Streamed(on_fetch_cycle(m, m.state.pc)))

on_3t_imm8_read(m) == Streamed(on_3t_read_cycle(m, m.state.pc))
on_5t_imm8_read(m) == Streamed(on_5t_read_cycle(m, m.state.pc))

\* the low byte is read in 3 T-states, the high byte in t; PC is set once
Imm16Read(m, t) ==
    LET Done(m2, lo) ==
            [m2 EXCEPT !.state.pc = inc16(inc16(@)), !.consumed = @ + 2,
                       !.v = make16(m2.v, lo)]
        Hi(m1) == Done(ReadCycle(m1, inc16(m1.state.pc), t), m1.v)
    IN  Hi(on_3t_read_cycle(m, m.state.pc))

on_3t_3t_imm16_read(m) == Imm16Read(m, 3)
on_3t_4t_imm16_read(m) == Imm16Read(m, 4)

\* on_disp_read_cycle is on_3t_read_cycle
on_disp_read(m) == Streamed(on_3t_read_cycle(m, m.state.pc))

(***************************************************************************)
(* Register accessors, z80.h lines 816-1052.  An 8-bit register is a half  *)
(* of its pair (get_b is get_high8(state.bc), set_b keeps get_c, and so on *)
(* for c, d, e, h, l, a, f, i); the handler of a pair gets and sets the    *)
(* low byte first.                                                         *)
(***************************************************************************)
get_b(m) == get_high8(m.state.bc)
get_a(m) == get_high8(m.state.af)
get_f(m) == get_low8(m.state.af)

set_b(m, n) == [m EXCEPT !.state.bc = make16(n, get_low8(@))]
set_a(m, n) == [m EXCEPT !.state.af = make16(n, get_low8(@))]
set_f(m, n) == [m EXCEPT !.state.af = make16(get_high8(@), n)]

on_get_af(m) == make16(get_high8(m.state.af), get_low8(m.state.af))
on_get_hl(m) == make16(get_high8(m.state.hl), get_low8(m.state.hl))
on_get_bc(m) == make16(get_high8(m.state.bc), get_low8(m.state.bc))
on_get_de(m) == make16(get_high8(m.state.de), get_low8(m.state.de))
on_get_ix(m) == make16(get_high8(m.state.ix), get_low8(m.state.ix))
on_get_iy(m) == make16(get_high8(m.state.iy), get_low8(m.state.iy))

on_set_af(m, nn) ==
    [m EXCEPT !.state.af = make16(get_high8(nn), get_low8(nn))]
on_set_hl(m, nn) ==
    [m EXCEPT !.state.hl = make16(get_high8(nn), get_low8(nn))]
on_set_bc(m, nn) ==
    [m EXCEPT !.state.bc = make16(get_high8(nn), get_low8(nn))]
on_set_de(m, nn) ==
    [m EXCEPT !.state.de = make16(get_high8(nn), get_low8(nn))]
on_set_ix(m, nn) ==
    [m EXCEPT !.state.ix = make16(get_high8(nn), get_low8(nn))]
on_set_iy(m, nn) ==
    [m EXCEPT !.state.iy = make16(get_high8(nn), get_low8(nn))]

on_get_sp(m) == m.state.sp
on_set_sp(m, nn) == [m EXCEPT !.state.sp = nn]
on_get_pc(m) == m.state.pc
on_set_pc(m, nn) == [m EXCEPT !.state.pc = nn]
on_get_memptr(m) == m.state.memptr
on_set_memptr(m, nn) == [m EXCEPT !.state.memptr = nn]

get_int_mode(m) == m.state.int_mode
on_set_int_mode(m, mode) == [m EXCEPT !.state.int_mode = mode]
\* bool on_get_int_mode() const { return get_int_mode(); }
on_get_int_mode(m) == get_int_mode(m) # 0

on_disable_int(m) == [m EXCEPT !.state.disable_int = TRUE]

get_index_rp_kind(m) == m.dstate.index_rp

on_get_index_rp(m) ==
    CASE get_index_rp_kind(m) = "hl" -> on_get_hl(m)
      [] get_index_rp_kind(m) = "ix" -> on_get_ix(m)
      [] get_index_rp_kind(m) = "iy" -> on_get_iy(m)

on_set_index_rp(m, nn) ==
    CASE get_index_rp_kind(m) = "hl" -> on_set_hl(m, nn)
      [] get_index_rp_kind(m) = "ix" -> on_set_ix(m, nn)
      [] get_index_rp_kind(m) = "iy" -> on_set_iy(m, nn)

(***************************************************************************)
(* Operand access, z80.h lines 1054-1154.                                  *)
(***************************************************************************)
get_disp_target(base, d) ==
    IF ~get_sign8(d) THEN add16(base, d) ELSE sub16(base, neg8(d))

\* memptr is set to the address only when an index register is in use
read_at_disp(m, d, long_read_cycle) ==
    LET Noted(g, addr) ==
            IF get_index_rp_kind(g) # "hl" THEN on_set_memptr(g, addr) ELSE g
        Read(addr) ==
            Noted(IF long_read_cycle THEN on_4t_read_cycle(m, addr)
                                     ELSE on_3t_read_cycle(m, addr), addr)
    IN  Read(get_disp_target(on_get_index_rp(m), d))

write_at_disp(m, d, n) ==
    LET Noted(g, addr) ==
            IF get_index_rp_kind(g) # "hl" THEN on_set_memptr(g, addr) ELSE g
        Write(addr) == Noted(on_3t_write_cycle(m, addr, n), addr)
    IN  Write(get_disp_target(on_get_index_rp(m), d))

\* reg::h and reg::l are H and L whatever the index register is; the value
\* is left in m.v
on_get_r(m, r, d, long_read_cycle) ==
    CASE r = reg_b -> [m EXCEPT !.v = get_high8(m.state.bc)]
      [] r = reg_c -> [m EXCEPT !.v = get_low8(m.state.bc)]
      [] r = reg_d -> [m EXCEPT !.v = get_high8(m.state.de)]
      [] r = reg_e -> [m EXCEPT !.v = get_low8(m.state.de)]
      [] r = reg_h -> [m EXCEPT !.v = get_high8(m.state.hl)]
      [] r = reg_l -> [m EXCEPT !.v = get_low8(m.state.hl)]
      [] r = reg_at_hl -> read_at_disp(m, d, long_read_cycle)
      [] r = reg_a -> [m EXCEPT !.v = get_high8(m.state.af)]

on_set_r(m, r, d, n) ==
    CASE r = reg_b -> [m EXCEPT !.state.bc = make16(n, get_low8(@))]
      [] r = reg_c -> [m EXCEPT !.state.bc = make16(get_high8(@), n)]
      [] r = reg_d -> [m EXCEPT !.state.de = make16(n, get_low8(@))]
      [] r = reg_e -> [m EXCEPT !.state.de = make16(get_high8(@), n)]
      [] r = reg_h -> [m EXCEPT !.state.hl = make16(n, get_low8(@))]
      [] r = reg_l -> [m EXCEPT !.state.hl = make16(get_high8(@), n)]
      [] r = reg_at_hl -> write_at_disp(m, d, n)
      [] r = reg_a -> [m EXCEPT !.state.af = make16(n, get_low8(@))]

on_get_rp(m, rp) ==
    CASE rp = regp_bc -> on_get_bc(m)
      [] rp = regp_de -> on_get_de(m)
      [] rp = regp_hl -> on_get_index_rp(m)
      [] rp = regp_sp -> on_get_sp(m)

on_set_rp(m, rp, nn) ==
    CASE rp = regp_bc -> on_set_bc(m, nn)
      [] rp = regp_de -> on_set_de(m, nn)
      [] rp = regp_hl -> on_set_index_rp(m, nn)
      [] rp = regp_sp -> on_set_sp(m, nn)

on_get_rp2(m, rp) ==
    CASE rp = regp_bc -> on_get_bc(m)
      [] rp = regp_de -> on_get_de(m)
      [] rp = regp_hl -> on_get_index_rp(m)
      [] rp = regp2_af -> on_get_af(m)

on_set_rp2(m, rp, nn) ==
    CASE rp = regp_bc -> on_set_bc(m, nn)
      [] rp = regp_de -> on_set_de(m, nn)
      [] rp = regp_hl -> on_set_index_rp(m, nn)
      [] rp = regp2_af -> on_set_af(m, nn)

(***************************************************************************)
(* Handlers, z80.h lines 1185-1536.                                        *)
(***************************************************************************)
\* alu::adc and alu::sbc are assert(0); t is add8(a, n) or sub8(a, n)
do_alu(m, k, n) ==
    LET SYX == Or(Or(sf_mask, yf_mask), xf_mask)
        AddFlags(t, a) ==
            Or(Or(Or(Or(And(t, SYX), zf_ari(t)), hf_ari(t, a, n)),
                  pf_ari(a + n, a, n)), cf_ari(t < a))
        SubFlags(t, a) ==
            Or(Or(Or(Or(Or(And(t, SYX), zf_ari(t)), hf_ari(t, a, n)),
                     pf_ari(UWrap(a - n), a, n)), cf_ari(t > a)), nf_mask)
        CpFlags(t, a) ==
            Or(Or(Or(Or(Or(Or(And(t, sf_mask), zf_ari(t)),
                           And(n, Or(yf_mask, xf_mask))),
                        hf_ari(t, a, n)), pf_ari(UWrap(a - n), a, n)),
                  cf_ari(t > a)), nf_mask)
        LogFlags(a) == Or(Or(And(a, SYX), zf_ari(a)), pf_log(a))
        Store(a, f) == set_f(set_a(m, a), f)
    IN  CASE k = alu_add ->
                Store(add8(get_a(m), n), AddFlags(add8(get_a(m), n), get_a(m)))
          [] k = alu_adc -> AssertFail(m)
          [] k = alu_sub ->
                Store(sub8(get_a(m), n), SubFlags(sub8(get_a(m), n), get_a(m)))
          [] k = alu_sbc -> AssertFail(m)
          [] k = alu_and ->
                Store(And(get_a(m), n), Or(LogFlags(And(get_a(m), n)), hf_mask))
          [] k = alu_xor ->
                Store(Xor(get_a(m), n), LogFlags(Xor(get_a(m), n)))
          [] k = alu_or ->
                Store(Or(get_a(m), n), LogFlags(Or(get_a(m), n)))
          [] k = alu_cp ->
                set_f(m, CpFlags(sub8(get_a(m), n), get_a(m)))

get_flag_mask(cc) ==
    CASE cc \div 2 = 0 -> zf_mask
      [] cc \div 2 = 1 -> cf_mask
      [] cc \div 2 = 2 -> pf_mask
      [] cc \div 2 = 3 -> sf_mask

check_condition(m, cc) ==
    (And(get_f(m), get_flag_mask(cc)) # 0) = (cc % 2 = 1)

\* "TODO: Forbid INT after this instruction."
on_noni_ed(m, op) == m

on_push(m, nn) ==
    on_set_sp(on_3t_write_cycle(
                  on_3t_write_cycle(m, dec16(on_get_sp(m)), get_high8(nn)),
                  dec16(dec16(on_get_sp(m))), get_low8(nn)),
              dec16(dec16(on_get_sp(m))))

\* the 16-bit value popped is left in m.v
on_pop(m) ==
    LET Done(m2, lo) ==
            [on_set_sp(m2, inc16(inc16(on_get_sp(m2)))) EXCEPT
                !.v = make16(m2.v, lo)]
        Hi(m1) == Done(on_3t_read_cycle(m1, inc16(on_get_sp(m1))), m1.v)
    IN  Hi(on_3t_read_cycle(m, on_get_sp(m)))

\* A variant of on_call that pushes nothing.
call_without_push(m, nn) == on_set_pc(on_set_memptr(m, nn), nn)

on_call(m, nn) == on_set_pc(on_set_memptr(on_push(m, on_get_pc(m)), nn), nn)

on_return(m) ==
    LET Jump(m1) == on_set_pc(on_set_memptr(m1, m1.v), m1.v)
    IN  Jump(on_pop(m))

\* A variant of on_relative_jump that takes the displacement as unsigned.
relative_jump_unsigned(m, d) ==
    LET Jump(m1, memptr) == on_set_pc(on_set_memptr(m1, memptr), memptr)
    IN  Jump(on_5t_exec_cycle(m), add16(on_get_pc(m), d))

on_relative_jump(m, d) ==
    LET Jump(m1, memptr) == on_set_pc(on_set_memptr(m1, memptr), memptr)
    IN  Jump(on_5t_exec_cycle(m), get_disp_target(on_get_pc(m), d))

\* the flags are computed into the local f, which is never stored
on_add_irp_rp(m, rp) ==
    on_set_index_rp(
        on_set_memptr(on_3t_exec_cycle(on_4t_exec_cycle(m)),
                      inc16(on_get_index_rp(m))),
        add16(on_get_index_rp(m), on_get_rp(m, rp)))

\* t = add16(n, cf), of = cf && t == 0, r = add16(hl, t)
on_adc_hl_rp(m, rp) ==
    LET Flags(r, hl, n, of) ==
            Or(Or(Or(Or(And(get_high8(r), Or(Or(sf_mask, yf_mask), xf_mask)),
                        zf_ari(r)),
                     hf_ari(Shr(r, 8), Shr(hl, 8), Shr(n, 8))),
                  Xor(pf_ari(Shr(r, 8), Shr(hl, 8), Shr(n, 8)),
                      IF of THEN pf_mask ELSE 0)),
               cf_ari(r < hl \/ of))
        Store(g, hl, r, f) ==
            set_f(on_set_hl(on_set_memptr(g, inc16(hl)), r), f)
        Sum(g, hl, n, cf, t) ==
            Store(g, hl, add16(hl, t),
                  Flags(add16(hl, t), hl, n, cf = 1 /\ t = 0))
    IN  Sum(on_3t_exec_cycle(on_4t_exec_cycle(m)), on_get_hl(m),
            on_get_rp(m, rp), get_f(m) % 2,
            add16(on_get_rp(m, rp), get_f(m) % 2))

\* as on_adc_hl_rp, with r = sub16(hl, t), the carry r > hl, and N
on_sbc_hl_rp(m, rp) ==
    LET Flags(r, hl, n, of) ==
            Or(Or(Or(Or(Or(And(get_high8(r),
                               Or(Or(sf_mask, yf_mask), xf_mask)),
                           zf_ari(r)),
                        hf_ari(Shr(r, 8), Shr(hl, 8), Shr(n, 8))),
                     Xor(pf_ari(Shr(r, 8), Shr(hl, 8), Shr(n, 8)),
                         IF of THEN pf_mask ELSE 0)),
                  cf_ari(r > hl \/ of)), nf_mask)
        Store(g, hl, r, f) ==
            set_f(on_set_hl(on_set_memptr(g, inc16(hl)), r), f)
        Diff(g, hl, n, cf, t) ==
            Store(g, hl, sub16(hl, t),
                  Flags(sub16(hl, t), hl, n, cf = 1 /\ t = 0))
    IN  Diff(on_3t_exec_cycle(on_4t_exec_cycle(m)), on_get_hl(m),
             on_get_rp(m, rp), get_f(m) % 2,
             add16(on_get_rp(m, rp), get_f(m) % 2))

on_alu_n(m, k, n) == do_alu(m, k, n)

on_alu_r(m, k, r, d) ==
    LET Body(g) == do_alu(g, k, g.v)
    IN  Body(on_get_r(m, r, d, FALSE))

\* t is the byte moved plus A; the branch taken when k & 1 decrements HL
\* and DE; LDIR and LDDR (k & 2) repeat while BC is not 0
on_block_ld(m, k) ==
    LET Flags(f, t, bc) ==
            Or(Or(Or(And(f, Or(Or(sf_mask, zf_mask), cf_mask)),
                     And(Shl(t, 4), yf_mask)), And(t, xf_mask)),
               IF bc # 0 THEN pf_mask ELSE 0)
        Store(g, t) ==
            set_f(on_set_hl(
                      on_set_de(
                          on_set_bc(g, dec16(on_get_bc(g))),
                          IF k % 2 = 1 THEN dec16(on_get_de(g))
                                       ELSE inc16(on_get_de(g))),
                      IF k % 2 = 1 THEN dec16(on_get_hl(g))
                                   ELSE inc16(on_get_hl(g))),
                  Flags(get_f(g), t, dec16(on_get_bc(g))))
        Repeat(g) ==
            IF (k \div 2) % 2 = 1 /\ on_get_bc(g) # 0
            THEN on_set_pc(on_set_memptr(on_5t_exec_cycle(g),
                                         inc16(on_get_pc(g))),
                           sub16(on_get_pc(g), 2))
            ELSE g
        Move(g) ==
            Store(on_5t_write_cycle(g, on_get_de(g), g.v), g.v + get_a(g))
    IN  Repeat(Move(on_3t_read_cycle(m, on_get_hl(m))))

\* A variant of on_bit that takes Y and X from the tested byte when the
\* operand is (HL) without an index register.
bit_yx_from_operand(m, b, r, d) ==
    LET Flags(f, mm, yx) ==
            Or(Or(Or(And(f, cf_mask), hf_mask),
                  IF mm # 0 THEN And(mm, sf_mask) ELSE Or(zf_mask, pf_mask)),
               And(yx, Or(xf_mask, yf_mask)))
        Body(g) ==
            set_f(g, Flags(get_f(g), And(g.v, Shl(1, b)),
                           IF get_index_rp_kind(g) # "hl"
                           THEN get_high8(on_get_memptr(g)) ELSE g.v))
    IN  Body(on_get_r(m, r, d, TRUE))

\* mm = v & (1u << b); yx is the byte bits 5 and 3 are copied from.
\* on_get_r is called with the opcode's r, whatever the index register is.
on_bit(m, b, r, d) ==
    LET Flags(f, mm, yx) ==
            Or(Or(Or(And(f, cf_mask), hf_mask),
                  IF mm # 0 THEN And(mm, sf_mask) ELSE Or(zf_mask, pf_mask)),
               And(yx, Or(xf_mask, yf_mask)))
        Body(g) ==
            set_f(g, Flags(get_f(g), And(g.v, Shl(1, b)),
                           IF get_index_rp_kind(g) # "hl" \/ r = reg_at_hl
                           THEN get_high8(on_get_memptr(g)) ELSE g.v))
    IN  Body(on_get_r(m, r, d, TRUE))

on_call_nn(m, nn) == on_call(m, nn)

\* A variant of on_ccf that takes H from the new carry.
ccf_h_from_new_carry(m) ==
    LET Flags(a, f) ==
            Or(Or(Or(And(f, Or(Or(sf_mask, zf_mask), pf_mask)),
                     And(a, Or(yf_mask, xf_mask))),
                  IF f % 2 = 0 THEN hf_mask ELSE 0),
               cf_ari(f % 2 = 0))
    IN  set_f(m, Flags(get_a(m), get_f(m)))

on_ccf(m) ==
    LET Flags(a, f) ==
            Or(Or(Or(And(f, Or(Or(sf_mask, zf_mask), pf_mask)),
                     And(a, Or(yf_mask, xf_mask))),
                  IF f % 2 = 1 THEN hf_mask ELSE 0),
               cf_ari(f % 2 = 0))
    IN  set_f(m, Flags(get_a(m), get_f(m)))

on_dec_r(m, r, d) ==
    LET Flags(f, v) ==
            Or(Or(Or(Or(Or(And(f, cf_mask),
                           And(v, Or(Or(sf_mask, yf_mask), xf_mask))),
                        zf_ari(v)), hf_dec(v)), pf_dec(v)), nf_mask)
        Body(g) ==
            set_f(on_set_r(g, r, d, dec8(g.v)), Flags(get_f(g), dec8(g.v)))
    IN  Body(on_get_r(m, r, d, TRUE))

\* A variant of on_dec_rp that sets Z from the result, as DEC r does.
dec_rp_setting_z(m, rp) ==
    LET Body(g) ==
            set_f(g, Or(And(get_f(g), mask8 - zf_mask),
                        zf_ari(on_get_rp(g, rp))))
    IN  Body(on_set_rp(m, rp, dec16(on_get_rp(m, rp))))

on_dec_rp(m, rp) == on_set_rp(m, rp, dec16(on_get_rp(m, rp)))

on_di(m) == [m EXCEPT !.state.iff1 = FALSE, !.state.iff2 = FALSE]

\* A variant of on_djnz that never branches.
djnz_falling_through(m, d) == set_b(m, dec8(get_b(m)))

on_djnz(m, d) ==
    LET Body(m1) == IF get_b(m1) # 0 THEN on_relative_jump(m1, d) ELSE m1
    IN  Body(set_b(m, dec8(get_b(m))))

\* A variant of on_ei that sets IFF1 only.
ei_setting_iff1_only(m) == on_disable_int([m EXCEPT !.state.iff1 = TRUE])

on_ei(m) ==
    on_disable_int([m EXCEPT !.state.iff1 = TRUE, !.state.iff2 = TRUE])

on_ex_de_hl(m) == [m EXCEPT !.state.de = m.state.hl, !.state.hl = m.state.de]

\* A variant of on_exx that leaves HL and HL' alone.
exx_keeping_hl(m) ==
    [m EXCEPT !.state.bc = m.state.alt_bc, !.state.alt_bc = m.state.bc,
              !.state.de = m.state.alt_de, !.state.alt_de = m.state.de]

on_exx(m) ==
    [m EXCEPT !.state.bc = m.state.alt_bc, !.state.alt_bc = m.state.bc,
              !.state.de = m.state.alt_de, !.state.alt_de = m.state.de,
              !.state.hl = m.state.alt_hl, !.state.alt_hl = m.state.hl]

on_im(m, mode) == on_set_int_mode(m, mode)

on_inc_r(m, r, d) ==
    LET Flags(f, v) ==
            Or(Or(Or(Or(And(f, cf_mask),
                        And(v, Or(Or(sf_mask, yf_mask), xf_mask))),
                     zf_ari(v)), hf_inc(v)), pf_inc(v))
        Body(g) ==
            set_f(on_set_r(g, r, d, inc8(g.v)), Flags(get_f(g), inc8(g.v)))
    IN  Body(on_get_r(m, r, d, TRUE))

on_inc_rp(m, rp) == on_set_rp(m, rp, inc16(on_get_rp(m, rp)))
on_jp_irp(m) == on_set_pc(m, on_get_index_rp(m))
on_jp_nn(m, nn) == on_set_pc(on_set_memptr(m, nn), nn)
on_jr(m, d) == on_relative_jump(m, d)

on_jr_cc(m, cc, d) ==
    IF check_condition(m, cc) THEN on_relative_jump(m, d) ELSE m

\* A variant of on_ld_i_a that stores A as I and clears R.
ld_i_a_clearing_r(m) == [m EXCEPT !.state.ir = make16(get_a(m), 0)]

\* set_i_on_ld(on_get_a()): I is the high byte of IR
on_ld_i_a(m) == [m EXCEPT !.state.ir = make16(get_a(m), get_low8(@))]

on_ld_r_r(m, rd, rs, d) ==
    LET Body(g) == on_set_r(g, rd, d, g.v)
    IN  Body(on_get_r(m, rs, d, FALSE))

on_ld_r_n(m, r, d, n) == on_set_r(m, r, d, n)
on_ld_rp_nn(m, rp, nn) == on_set_rp(m, rp, nn)

\* lo at nn, memptr = nn + 1, hi at nn + 1
on_ld_irp_at_nn(m, nn) ==
    LET Done(m2, lo) == on_set_index_rp(m2, make16(m2.v, lo))
        Hi(m1) ==
            Done(on_3t_read_cycle(on_set_memptr(m1, inc16(nn)), inc16(nn)),
                 m1.v)
    IN  Hi(on_3t_read_cycle(m, nn))

on_ld_at_nn_irp(m, nn) ==
    on_3t_write_cycle(
        on_set_memptr(on_3t_write_cycle(m, nn, get_low8(on_get_index_rp(m))),
                      inc16(nn)),
        inc16(nn), get_high8(on_get_index_rp(m)))

on_ld_rp_at_nn(m, rp, nn) ==
    LET Done(m2, lo) == on_set_rp(m2, rp, make16(m2.v, lo))
        Hi(m1) ==
            Done(on_3t_read_cycle(on_set_memptr(m1, inc16(nn)), inc16(nn)),
                 m1.v)
    IN  Hi(on_3t_read_cycle(m, nn))

on_ld_at_nn_rp(m, nn, rp) ==
    on_3t_write_cycle(
        on_set_memptr(on_3t_write_cycle(m, nn, get_low8(on_get_rp(m, rp))),
                      inc16(nn)),
        inc16(nn), get_high8(on_get_rp(m, rp)))

on_ld_a_at_nn(m, nn) ==
    LET Body(g) == set_a(g, g.v)
    IN  Body(on_3t_read_cycle(on_set_memptr(m, inc16(nn)), nn))

\* A variant of on_ld_at_nn_a that sets MEMPTR to nn + 1.
ld_at_nn_a_memptr_next(m, nn) ==
    on_3t_write_cycle(on_set_memptr(m, inc16(nn)), nn, get_a(m))

on_ld_at_nn_a(m, nn) ==
    on_3t_write_cycle(
        on_set_memptr(m, make16(get_a(m), inc8(get_low8(nn)))), nn, get_a(m))

on_ld_sp_irp(m) == on_set_sp(m, on_get_index_rp(m))

\* A variant of on_nop that touches an interrupt flip-flop.
nop_touching_iff1(m) == [m EXCEPT !.state.iff1 = ~@]

on_nop(m) == m

on_out_n_a(m, n) ==
    on_set_memptr(on_output_cycle(m, make16(get_a(m), n), get_a(m)),
                  make16(get_a(m), inc8(n)))

on_pop_rp(m, rp) ==
    LET Body(g) == on_set_rp2(g, rp, g.v)
    IN  Body(on_pop(m))

on_push_rp(m, rp) == on_push(m, on_get_rp2(m, rp))

\* access_r is r without an index register and (HL) with one; v &= ~(1u << b);
\* the byte is written back and, with an index register and r not (HL),
\* copied into r as well
on_res(m, b, r, d) ==
    LET irp == get_index_rp_kind(m)
        access_r == IF irp = "hl" THEN r ELSE reg_at_hl
        Store(g, v) ==
            IF irp # "hl" /\ r # reg_at_hl
            THEN on_set_r(on_set_r(g, access_r, d, v), r, 0, v)
            ELSE on_set_r(g, access_r, d, v)
        Body(g) == Store(g, g.v - And(g.v, Shl(1, b)))
    IN  Body(on_get_r(m, access_r, d, TRUE))

on_ret(m) == on_return(m)
on_ret_cc(m, cc) == IF check_condition(m, cc) THEN on_return(m) ELSE m

on_rrca(m) ==
    LET Flags(a, f) ==
            Or(Or(And(f, Or(Or(sf_mask, zf_mask), pf_mask)),
                  And(a, Or(yf_mask, xf_mask))),
               cf_ari(get_sign8(a)))
    IN  set_f(set_a(m, ror8(get_a(m))), Flags(ror8(get_a(m)), get_f(m)))

on_scf(m) ==
    set_f(m, Or(Or(And(get_f(m), Or(Or(sf_mask, zf_mask), pf_mask)),
                   And(get_a(m), Or(yf_mask, xf_mask))), cf_mask))

\* A variant of on_set that writes the byte back without copying it into r.
set_without_copy(m, b, r, d) ==
    LET access_r == IF get_index_rp_kind(m) = "hl" THEN r ELSE reg_at_hl
        Body(g) == on_set_r(g, access_r, d, Or(g.v, Shl(1, b)))
    IN  Body(on_get_r(m, access_r, d, TRUE))

\* as on_res, with v |= 1u << b
on_set(m, b, r, d) ==
    LET irp == get_index_rp_kind(m)
        access_r == IF irp = "hl" THEN r ELSE reg_at_hl
        Store(g, v) ==
            IF irp # "hl" /\ r # reg_at_hl
            THEN on_set_r(on_set_r(g, access_r, d, v), r, 0, v)
            ELSE on_set_r(g, access_r, d, v)
        Body(g) == Store(g, Or(g.v, Shl(1, b)))
    IN  Body(on_get_r(m, access_r, d, TRUE))

(***************************************************************************)
(* The decoder, z80.h lines 123-491.                                       *)
(***************************************************************************)
\* the displacement (or 0) is left in m.v
read_disp_or_null(m, may_need_disp) ==
    IF get_index_rp_kind(m) = "hl" \/ ~may_need_disp
    THEN [m EXCEPT !.v = 0]
    ELSE on_5t_exec_cycle(on_disp_read(m))

set_prefix(m, p) == [m EXCEPT !.dstate.prefix = p]

\* A variant of on_ed_prefix that leaves the prefix as it is.
ed_prefix_forgotten(m) == m

\* A variant of on_ed_prefix that carries the index register over, as
\* on_cb_prefix does.
ed_prefix_keeping_index(m) ==
    [set_prefix(m, "ed") EXCEPT !.dstate.next_index_rp = m.dstate.index_rp]

on_ed_prefix(m) == set_prefix(m, "ed")

\* A variant of on_cb_prefix that does not carry the index register over.
cb_prefix_dropping_index(m) == set_prefix(m, "cb")

on_cb_prefix(m) ==
    [set_prefix(m, "cb") EXCEPT !.dstate.next_index_rp = m.dstate.index_rp]

on_prefix_reset(m) == set_prefix(m, "none")

\* processor::on_set_next_index_rp: the decoder's, then on_disable_int()
on_set_next_index_rp(m, irp) ==
    on_disable_int([m EXCEPT !.dstate.next_index_rp = irp])

\* A variant of decode_int_mode that takes the two bits as the mode.
int_mode_unmapped(y) == y % 4

decode_int_mode(y) == IF y % 4 < 2 THEN 0 ELSE (y % 4) - 1

\* ~prefix_reset_guard(): runs when the decode function returns, not when
\* the process is aborted inside it
prefix_reset_guard(m) == IF m.fault = "none" THEN on_prefix_reset(m) ELSE m

\* In the switches on the fetched opcode op, x is op & x_mask, xz is
\* op & (x_mask | z_mask) and xzq is op & (x_mask | z_mask | q_mask).  A
\* handler's operand read from the instruction stream arrives in g.v.
\* There is no case for 0xdd in the last switch.
decode_unprefixed(m) ==
    LET LdRR(g, rd, rs) == on_ld_r_r(g, rd, rs, g.v)
        AluR(g, k, r) == on_alu_r(g, k, r, g.v)
        IncR(g, r) == on_inc_r(g, r, g.v)
        DecR(g, r) == on_dec_r(g, r, g.v)
        LdRN(g, r, d) == on_ld_r_n(g, r, d, g.v)
        LdRNDisp(g, r) == LdRN(on_5t_imm8_read(g), r, g.v)
        AluN(g, k) == on_alu_n(g, k, g.v)
        JrCc(g, cc) == on_jr_cc(g, cc, g.v)
        LdRpNn(g, rp) == on_ld_rp_nn(g, rp, g.v)
        Djnz(g) == on_djnz(g, g.v)
        Jr(g) == on_jr(g, g.v)
        LdAtNnIrp(g) == on_ld_at_nn_irp(g, g.v)
        LdIrpAtNn(g) == on_ld_irp_at_nn(g, g.v)
        LdAtNnA(g) == on_ld_at_nn_a(g, g.v)
        LdAAtNn(g) == on_ld_a_at_nn(g, g.v)
        JpNn(g) == on_jp_nn(g, g.v)
        CallNn(g) == on_call_nn(g, g.v)
        OutNA(g) == on_out_n_a(g, g.v)
        Single(g, op) ==
            CASE op = 0 -> on_nop(g)
              [] op = 15 -> on_rrca(g)
              [] op = 16 -> Djnz(on_disp_read(on_5t_fetch_cycle(g)))
              [] op = 24 -> Jr(on_disp_read(g))
              [] op = 34 -> LdAtNnIrp(on_3t_3t_imm16_read(g))
              [] op = 42 -> LdIrpAtNn(on_3t_3t_imm16_read(g))
              [] op = 50 -> LdAtNnA(on_3t_3t_imm16_read(g))
              [] op = 55 -> on_scf(g)
              [] op = 58 -> LdAAtNn(on_3t_3t_imm16_read(g))
              [] op = 63 -> on_ccf(g)
              [] op = 195 -> JpNn(on_3t_3t_imm16_read(g))
              [] op = 201 -> on_ret(g)
              [] op = 203 -> on_cb_prefix(g)
              [] op = 205 -> CallNn(on_3t_4t_imm16_read(g))
              [] op = 211 -> OutNA(on_3t_imm8_read(g))
              [] op = 217 -> on_exx(g)
              [] op = 233 -> on_jp_irp(g)
              [] op = 235 -> on_ex_de_hl(g)
              [] op = 237 -> on_ed_prefix(g)
              [] op = 243 -> on_di(g)
              [] op = 249 -> on_ld_sp_irp(on_6t_fetch_cycle(g))
              [] op = 251 -> on_ei(g)
              [] op = 253 -> on_set_next_index_rp(g, "iy")
              [] OTHER -> Abort(g)
        Fields(g, op, y, z, p, x, xz, xzq) ==
            CASE x = 64 ->
                    IF y = reg_at_hl /\ z = reg_at_hl
                    THEN AssertFail(g)
                    ELSE LdRR(read_disp_or_null(
                                  g, y = reg_at_hl \/ z = reg_at_hl), y, z)
              [] x = 128 -> AluR(read_disp_or_null(g, z = reg_at_hl), y, z)
              [] xz = 4 -> IncR(read_disp_or_null(g, y = reg_at_hl), y)
              [] xz = 5 -> DecR(read_disp_or_null(g, y = reg_at_hl), y)
              [] xz = 6 ->
                    IF y # reg_at_hl \/ get_index_rp_kind(g) = "hl"
                    THEN LdRN(on_3t_imm8_read(g), y, 0)
                    ELSE LdRNDisp(on_disp_read(g), y)
              [] xz = 192 -> on_ret_cc(on_5t_fetch_cycle(g), y)
              [] xz = 198 -> AluN(on_3t_imm8_read(g), y)
              [] And(op, Or(Or(x_mask, z_mask), y_mask - 24)) = 32 ->
                    JrCc(on_disp_read(g), Shr(And(op, y_mask - 32), 3))
              [] xzq = 1 -> LdRpNn(on_3t_3t_imm16_read(g), p)
              [] xzq = 3 -> on_inc_rp(on_6t_fetch_cycle(g), p)
              [] xzq = 9 -> on_add_irp_rp(g, p)
              [] xzq = 11 -> on_dec_rp(on_6t_fetch_cycle(g), p)
              [] xzq = 193 -> on_pop_rp(g, p)
              [] xzq = 197 -> on_push_rp(on_5t_fetch_cycle(g), p)
              [] OTHER -> Single(g, op)
        Opcode(g, op) ==
            Fields(g, op, get_y_part(op), get_z_part(op), get_p_part(op),
                   And(op, x_mask), And(op, Or(x_mask, z_mask)),
                   And(op, Or(Or(x_mask, z_mask), q_mask)))
        Body(g) == Opcode(g, g.op)
    IN  Body(on_fetch(m))

\* BIT, RES and SET; the rotates and shifts (x = 0) are unknown opcodes.
\* With an index register the displacement is read before the opcode.
decode_cb_prefixed(m) ==
    LET Opcode(g, op, d) ==
            CASE And(op, x_mask) = 64 ->
                    on_bit(g, get_y_part(op), get_z_part(op), d)
              [] And(op, x_mask) = 128 ->
                    on_res(g, get_y_part(op), get_z_part(op), d)
              [] And(op, x_mask) = 192 ->
                    on_set(g, get_y_part(op), get_z_part(op), d)
              [] OTHER -> Abort(g)
        Plain(g) == Opcode(g, g.op, 0)
        Indexed(h, d) == Opcode(h, h.op, d)
        Disp(g) == Indexed(on_5t_fetch_cycle(on_fetch(g)), g.v)
    IN  prefix_reset_guard(IF get_index_rp_kind(m) = "hl"
                           THEN Plain(on_fetch(m))
                           ELSE Disp(on_disp_read(m)))

decode_ed_prefixed(m) ==
    LET Load(g, p) == on_ld_rp_at_nn(g, p, g.v)
        Store(g, p) == on_ld_at_nn_rp(g, g.v, p)
        Opcode(g, op, y, p, xz) ==
            CASE xz = 66 -> IF And(op, q_mask) # 0 THEN on_adc_hl_rp(g, p)
                                                   ELSE on_sbc_hl_rp(g, p)
              [] xz = 67 ->
                    IF And(op, q_mask) # 0
                    THEN Load(on_3t_3t_imm16_read(g), p)
                    ELSE Store(on_3t_3t_imm16_read(g), p)
              [] xz = 70 -> on_im(g, decode_int_mode(y))
              [] xz = 128 -> IF y < 4 THEN on_noni_ed(g, op)
                                      ELSE on_block_ld(g, y - 4)
              [] op = 71 -> on_ld_i_a(on_5t_fetch_cycle(g))
              [] OTHER -> Abort(g)
        Body(g) ==
            Opcode(g, g.op, get_y_part(g.op), get_p_part(g.op),
                   And(g.op, Or(x_mask, z_mask)))
    IN  prefix_reset_guard(Body(on_fetch(m)))

on_decode(m) ==
    LET Prefixed(g) ==
            CASE g.dstate.prefix = "none" -> decode_unprefixed(g)
              [] g.dstate.prefix = "cb" -> decode_cb_prefixed(g)
              [] g.dstate.prefix = "ed" -> decode_ed_prefixed(g)
    IN  Prefixed([m EXCEPT !.dstate.index_rp = m.dstate.next_index_rp,
                           !.dstate.next_index_rp = "hl"])

\* void on_step() { (*this)->decode(); }: disable_int is not touched
on_step(m) == on_decode(m)

(***************************************************************************)
(* The host: a machine owning the memory image and the tick counter, which *)
(* constructs the processor, uses the public setters (z80.h 899-1044) and  *)
(* at() to place registers, data and a program, and then calls step().     *)
(***************************************************************************)
\* processor_state(), z80.h lines 779-786
ResetState ==
    [last_read_addr |-> 0, disable_int |-> FALSE,
     bc |-> 0, de |-> 0, hl |-> 0, af |-> 0, ix |-> 0, iy |-> 0,
     alt_bc |-> 0, alt_de |-> 0, alt_hl |-> 0,
     pc |-> 0, sp |-> 0, ir |-> 0, memptr |-> 0,
     iff1 |-> FALSE, iff2 |-> FALSE, int_mode |-> 0]

\* decoder_state(), z80.h lines 509-518
ResetDecoder == [index_rp |-> "hl", next_index_rp |-> "hl", prefix |-> "none"]

\* register files the host sets up; "ix100" is IX = 0x100 on a reset state
Presets ==
    [reset |-> ResetState,
     high |-> [ResetState EXCEPT
                 !.af = 42495, !.bc = 256, !.de = 16384, !.hl = 16400,
                 !.ix = 256, !.iy = 16638,
                 !.alt_bc = 4369, !.alt_de = 8738, !.alt_hl = 13107,
                 !.pc = 65535, !.sp = 1, !.ir = 4660, !.memptr = 10240,
                 !.iff1 = TRUE, !.iff2 = TRUE, !.int_mode = 2],
     low |-> [ResetState EXCEPT
                 !.af = 23041, !.bc = 1, !.de = 65535, !.hl = 65535,
                 !.ix = 65535, !.iy = 3,
                 !.alt_bc = 43690, !.alt_de = 48059, !.alt_hl = 52428,
                 !.pc = 256, !.sp = 65535, !.ir = 255, !.memptr = 65535],
     ix100 |-> [ResetState EXCEPT !.ix = 256]]

\* the memory the host prepares: nothing, or data where the presets' HL,
\* DE and IY+d point
DataImages ==
    [none |-> [x \in {} |-> 0],
     data |-> (16400 :> 129) @@ (16401 :> 60) @@ (16384 :> 255) @@
              (16643 :> 40) @@ (16636 :> 215) @@ (65535 :> 170) @@ (8 :> 85)]

\* displacement / immediate bytes following an opcode
Operands == {<<5, 64>>, <<254, 0>>}

\* at address p: CALL p + 4; NOP; RET
CallRet(p) == <<205, ((p + 4) % 65536) % 256, ((p + 4) % 65536) \div 256, 0, 201>>

\* every opcode without a prefix, after CB, after ED, after FD and after
\* FD CB d, some prefix chains, LD HL,0x8000; ADD HL,HL, EXX; EXX,
\* EX DE,HL; EX DE,HL, LD (0x12FF),A and OUT (0xFF),A
Programs ==
    {<<op, a[1], a[2]>> : op \in 0 .. 255, a \in Operands} \cup
    {<<203, op>> : op \in 0 .. 255} \cup
    {<<237, op, a[1], a[2]>> : op \in 0 .. 255, a \in Operands} \cup
    {<<253, op, a[1], a[2]>> : op \in 0 .. 255, a \in Operands} \cup
    {<<253, 203, a[1], op>> : op \in 0 .. 255, a \in Operands} \cup
    {<<221, 203, 5, 198>>, <<253, 221, 0>>, <<253, 253, 126, 5>>,
     <<253, 237, 176>>, <<251, 0, 0>>, <<253, 253, 203, 5, 198>>,
     <<33, 0, 128, 41>>, <<217, 217, 0>>, <<235, 235, 0>>,
     <<50, 255, 18>>, <<211, 255, 0>>} \cup
    {CallRet(Presets[x].pc) : x \in {"reset", "high", "low"}}

\* at(base + i - 1) = prog[i], addresses taken modulo 65536
RECURSIVE Place(_, _, _)
Place(img, prog, base) ==
    IF prog = <<>> THEN img
    ELSE Place(Poke(img, base, Head(prog)), Tail(prog), inc16(base))

NoLoad == [prog |-> <<>>, preset |-> "none", data |-> "none"]

\* the machine as the handlers see it at the start of a step()
Machine ==
    [state |-> state, dstate |-> dstate, image |-> image, ticks |-> ticks,
     fault |-> fault, bus |-> <<>>, consumed |-> 0, op |-> 0, v |-> 0]

Snapshot ==
    [state |-> state, dstate |-> dstate, image |-> image, ticks |-> ticks]

\* no prefix pending: the next step() starts a new instruction
BaseDecoder(ds) == ds.prefix = "none" /\ ds.next_index_rp = "hl"

Init ==
    /\ state = ResetState
    /\ dstate = ResetDecoder
    /\ image = DataImages.none
    /\ ticks = 0
    /\ fault = "none"
    /\ bus = <<>>
    /\ consumed = 0
    /\ steps = 0
    /\ last = [from |-> [state |-> ResetState, dstate |-> ResetDecoder,
                         image |-> DataImages.none, ticks |-> 0], op |-> 0]
    /\ instr = [start |-> [state |-> ResetState, dstate |-> ResetDecoder,
                           image |-> DataImages.none, ticks |-> 0],
                pre |-> <<>>, op |-> 0, done |-> TRUE]
    /\ loaded = NoLoad
    /\ stream = <<>>
    /\ lines = <<>>
    /\ calls = <<>>

\* The host stores data and a program and sets the registers, once, before
\* the first step(); the image array has no defined content before that.
Load ==
    /\ steps = 0
    /\ loaded = NoLoad
    /\ \E prog \in Programs, preset \in DOMAIN Presets,
          data \in DOMAIN DataImages :
          /\ preset = "ix100" => prog = <<221, 203, 5, 198>> /\ data = "none"
          /\ state' = Presets[preset]
          /\ image' = Place(DataImages[data], prog, Presets[preset].pc)
          /\ loaded' = [prog |-> prog, preset |-> preset, data |-> data]
    /\ UNCHANGED <<dstate, ticks, fault, bus, consumed, steps, last, instr,
                   stream, lines, calls>>

\* what one call of step() leaves behind, r being the machine it ended in;
\* instr follows the instruction across the steps that fetch its prefixes
StepTo(r) ==
    /\ state' = r.state
    /\ dstate' = r.dstate
    /\ image' = r.image
    /\ ticks' = r.ticks
    /\ fault' = r.fault
    /\ bus' = r.bus
    /\ consumed' = r.consumed
    /\ steps' = steps + 1
    /\ last' = [from |-> Snapshot, op |-> r.op]
    /\ instr' = [start |-> IF instr.done THEN Snapshot ELSE instr.start,
                 pre |-> IF instr.done THEN <<>>
                                       ELSE Append(instr.pre, instr.op),
                 op |-> r.op,
                 done |-> BaseDecoder(r.dstate)]
    /\ UNCHANGED loaded

\* processor::step(); a process that aborted or failed an assertion is gone
Step ==
    /\ loaded # NoLoad
    /\ fault = "none"
    /\ steps < MaxSteps
    /\ StepTo(on_step(Machine))
    /\ UNCHANGED <<stream, lines, calls>>

Next == Load \/ Step

Spec == Init /\ [][Next]_vars

(***************************************************************************)
(* A second host, for the 8-bit arithmetic: it loads one ALU, INC or DEC   *)
(* instruction in its immediate, register, (HL) or (IY+d) form, or RRCA,   *)
(* SCF, CCF or two CCFs, with the accumulator a, the operand n and the     *)
(* flags f, and calls step() until the program is complete.                *)
(***************************************************************************)
\* The (HL) and (IY+d) operands live at 0x4000 (16384); the displacement is
\* -5 (251), so IY is 0x4005 (16389).
\* the programs of one operation: kind "alu" with k the operation (opcodes
\* 0x80 + 8k + r and 0xC6 + 8k), kind "inc" and "dec" (0x04 + 8r, 0x05 + 8r),
\* and kind "acc": RRCA, SCF, CCF and CCF; CCF for k = 0 .. 3
AluPrograms(kind, k) ==
    CASE kind = "alu" ->
            [n |-> <<198 + 8 * k>>, r |-> <<128 + 8 * k>>,
             hl |-> <<134 + 8 * k>>, iy |-> <<253, 134 + 8 * k, 251>>]
      [] kind = "inc" ->
            [n |-> <<60>>, r |-> <<4>>, hl |-> <<52>>,
             iy |-> <<253, 52, 251>>]
      [] kind = "dec" ->
            [n |-> <<61>>, r |-> <<5>>, hl |-> <<53>>,
             iy |-> <<253, 53, 251>>]
      [] kind = "acc" ->
            [n |-> CASE k = 0 -> <<15>> [] k = 1 -> <<55>>
                     [] k = 2 -> <<63>> [] OTHER -> <<63, 63>>]

\* The form "n" is the immediate operand of an ALU operation the code
\* implements (ADC and SBC stop at assert(0)), loaded with every a and n,
\* and INC A / DEC A; the other forms take B, (HL) and
\* (IY+d) as the operand, with a and n among the bytes around the carries,
\* the sign change and the nibble boundaries.
LoadAlu ==
    /\ steps = 0
    /\ loaded = NoLoad
    /\ \E kind \in {"alu", "inc", "dec", "acc"}, k \in 0 .. 7,
          form \in {"n", "r", "hl", "iy"},
          a \in 0 .. 255, n \in 0 .. 255, f \in {0, 255} :
          /\ kind \in {"inc", "dec"} => k = 0
          /\ kind = "acc" => form = "n" /\ k <= 3
          /\ (kind = "alu" /\ form = "n") => f = 0 /\ k \notin {alu_adc, alu_sbc}
          /\ (kind # "alu" /\ form = "n") => n = 0
          /\ form # "n" =>
                {a, n} \subseteq {0, 1, 15, 16, 17, 85, 127, 128, 129, 170,
                                  240, 254, 255}
          /\ state' = [ResetState EXCEPT
                          !.af = 256 * a + f, !.bc = 256 * n,
                          !.hl = 16384,
                          !.iy = 16389]
          /\ image' = Place(Poke(DataImages.none, 16384, n),
                            AluPrograms(kind, k)[form]
                               \o (IF kind = "alu" /\ form = "n"
                                   THEN <<n>> ELSE <<>>), 0)
          /\ loaded' = [prog |-> AluPrograms(kind, k)[form],
                        preset |-> kind, data |-> form, regs |-> state']
    /\ UNCHANGED <<dstate, ticks, fault, bus, consumed, steps, last, instr,
                   stream, lines, calls>>

\* step() is called until the program loaded is complete
Execute ==
    /\ loaded # NoLoad
    /\ fault = "none"
    /\ state.pc < Len(loaded.prog) \/ ~instr.done
    /\ StepTo(on_step(Machine))
    /\ UNCHANGED <<stream, lines, calls>>

NextAlu == LoadAlu \/ Execute

SpecAlu == Init /\ [][NextAlu]_vars

(***************************************************************************)
(* A third host, for LDIR: it stores "abc" at the source, LDIR and a NOP   *)
(* at address 0x100, sets BC = K, HL and DE, and keeps calling step().     *)
(* The ranges may overlap each other and wrap around the end of memory;    *)
(* the destination never covers the instruction.                           *)
(***************************************************************************)
LoadBlock ==
    /\ steps = 0
    /\ loaded = NoLoad
    /\ \E k \in 1 .. MaxCount, hl \in {512, 65535},
          de \in {768, 513, 65534}, f \in {0, 255} :
          /\ state' = [ResetState EXCEPT !.af = 256 * 7 + f, !.bc = k,
                                         !.hl = hl, !.de = de, !.pc = 256]
          /\ image' = Place(Place(DataImages.none, <<97, 98, 99>>, hl),
                            <<237, 176, 0>>, 256)
          /\ loaded' = [prog |-> <<237, 176, 0>>, preset |-> "block",
                        data |-> "abc", regs |-> state', image |-> image']
    /\ UNCHANGED <<dstate, ticks, fault, bus, consumed, steps, last, instr,
                   stream, lines, calls>>

\* two step() calls per iteration, and two more
Run ==
    /\ loaded # NoLoad
    /\ fault = "none"
    /\ steps < 2 * MaxCount + 2
    /\ StepTo(on_step(Machine))
    /\ UNCHANGED <<stream, lines, calls>>

NextBlock == LoadBlock \/ Run

SpecBlock == Init /\ [][NextBlock]_vars

(***************************************************************************)
(* The disassembler, z80.h lines 553-708: the decoder with handlers that   *)
(* format a line.  It works on a record d of the decoder state, the byte   *)
(* source, the lines output by the call, the bytes the call has read and,  *)
(* as for the processor, d.v and d.op.  Its bus cycle handlers do nothing. *)
(***************************************************************************)
\* on_format_impl is defined outside z80.h: it renders the arguments into
\* the format letters (R, P, G, N, W, U, C, D, A, L) of fmt and hands the
\* text to on_output.  A format without arguments is the text itself; the
\* line is kept as the format and the arguments to be rendered into it.
on_format_impl(d, fmt, args) ==
    [d EXCEPT !.lines = Append(@, [text |-> fmt, args |-> args])]

\* A variant of the disassembler's on_nop that formats nothing.
dis_nop_silent(d) == d

\* disassembler::on_nop
dis_on_nop(d) == on_format_impl(d, "nop", <<>>)

\* disassembler::disassemble: decode() with the disassembler's handlers.
\* on_read() is the host's: the next byte of the stream, 0 once it is
\* exhausted.  Arguments are passed as the code passes them: registers,
\* pairs, conditions and ALU kinds by number, the index register by name.
disassemble(d) ==
    LET Read(g) ==
            [g EXCEPT !.v = IF g.stream = <<>> THEN 0 ELSE Head(g.stream),
                      !.stream = IF @ = <<>> THEN <<>> ELSE Tail(@),
                      !.consumed = @ + 1]
        Fetched(g) == [g EXCEPT !.op = g.v]
        Fetch(g) == Fetched(Read(g))
        Joined(g2, lo) == [g2 EXCEPT !.v = make16(g2.v, lo)]
        Hi(g1) == Joined(Read(g1), g1.v)
        Imm16(g) == Hi(Read(g))
        Disp(g, may_need_disp) ==
            IF g.dstate.index_rp = "hl" \/ ~may_need_disp
            THEN [g EXCEPT !.v = 0] ELSE Read(g)
        Target(n) == (IF get_sign8(n) THEN n - 256 ELSE n) + 2
        LdRR(g, rd, rs, irp) ==
            on_format_impl(g, "ld R, R", <<rd, irp, g.v, rs, irp, g.v>>)
        AluR(g, k, r, irp) == on_format_impl(g, "A R", <<k, r, irp, g.v>>)
        IncR(g, r, irp) == on_format_impl(g, "inc R", <<r, irp, g.v>>)
        DecR(g, r, irp) == on_format_impl(g, "dec R", <<r, irp, g.v>>)
        LdRN(g, r, irp, dd) ==
            on_format_impl(g, "ld R, N", <<r, irp, dd, g.v>>)
        LdRNDisp(g, r, irp) == LdRN(Read(g), r, irp, g.v)
        AluN(g, k) == on_format_impl(g, "A N", <<k, g.v>>)
        JrCc(g, cc) == on_format_impl(g, "jr C, D", <<cc, Target(g.v)>>)
        LdRpNn(g, rp, irp) == on_format_impl(g, "ld P, W", <<rp, irp, g.v>>)
        Djnz(g) == on_format_impl(g, "djnz D", <<Target(g.v)>>)
        Jr(g) == on_format_impl(g, "jr D", <<Target(g.v)>>)
        LdAtNnIrp(g, irp) ==
            on_format_impl(g, "ld (W), P", <<g.v, regp_hl, irp>>)
        LdIrpAtNn(g, irp) ==
            on_format_impl(g, "ld P, (W)", <<regp_hl, irp, g.v>>)
        LdAtNnA(g) == on_format_impl(g, "ld (W), a", <<g.v>>)
        LdAAtNn(g) == on_format_impl(g, "ld a, (W)", <<g.v>>)
        JpNn(g) == on_format_impl(g, "jp W", <<g.v>>)
        CallNn(g) == on_format_impl(g, "call W", <<g.v>>)
        OutNA(g) == on_format_impl(g, "out (N), a", <<g.v>>)
        Single(g, op, irp) ==
            CASE op = 0 -> dis_on_nop(g)
              [] op = 15 -> on_format_impl(g, "rrca", <<>>)
              [] op = 16 -> Djnz(Read(g))
              [] op = 24 -> Jr(Read(g))
              [] op = 34 -> LdAtNnIrp(Imm16(g), irp)
              [] op = 42 -> LdIrpAtNn(Imm16(g), irp)
              [] op = 50 -> LdAtNnA(Imm16(g))
              [] op = 55 -> on_format_impl(g, "scf", <<>>)
              [] op = 58 -> LdAAtNn(Imm16(g))
              [] op = 63 -> on_format_impl(g, "ccf", <<>>)
              [] op = 195 -> JpNn(Imm16(g))
              [] op = 201 -> on_format_impl(g, "ret", <<>>)
              [] op = 203 -> on_cb_prefix(g)
              [] op = 205 -> CallNn(Imm16(g))
              [] op = 211 -> OutNA(Read(g))
              [] op = 217 -> on_format_impl(g, "exx", <<>>)
              [] op = 233 -> on_format_impl(g, "jp (P)", <<regp_hl, irp>>)
              [] op = 235 -> on_format_impl(g, "ex de, hl", <<>>)
              [] op = 237 ->
                    on_format_impl(on_ed_prefix(g), "noni 0xed", <<>>)
              [] op = 243 -> on_format_impl(g, "di", <<>>)
              [] op = 249 -> on_format_impl(g, "ld sp, P", <<regp_hl, irp>>)
              [] op = 251 -> on_format_impl(g, "ei", <<>>)
              [] op = 253 -> [g EXCEPT !.dstate.next_index_rp = "iy"]
              [] OTHER -> Abort(g)
        Fields(g, op, y, z, p, irp, x, xz, xzq) ==
            CASE x = 64 ->
                    IF y = reg_at_hl /\ z = reg_at_hl
                    THEN AssertFail(g)
                    ELSE LdRR(Disp(g, y = reg_at_hl \/ z = reg_at_hl),
                              y, z, irp)
              [] x = 128 -> AluR(Disp(g, z = reg_at_hl), y, z, irp)
              [] xz = 4 -> IncR(Disp(g, y = reg_at_hl), y, irp)
              [] xz = 5 -> DecR(Disp(g, y = reg_at_hl), y, irp)
              [] xz = 6 ->
                    IF y # reg_at_hl \/ irp = "hl"
                    THEN LdRN(Read(g), y, irp, 0)
                    ELSE LdRNDisp(Read(g), y, irp)
              [] xz = 192 -> on_format_impl(g, "ret C", <<y>>)
              [] xz = 198 -> AluN(Read(g), y)
              [] And(op, Or(Or(x_mask, z_mask), y_mask - 24)) = 32 ->
                    JrCc(Read(g), Shr(And(op, y_mask - 32), 3))
              [] xzq = 1 -> LdRpNn(Imm16(g), p, irp)
              [] xzq = 3 -> on_format_impl(g, "inc P", <<p, irp>>)
              [] xzq = 9 ->
                    on_format_impl(g, "add P, P", <<regp_hl, irp, p, irp>>)
              [] xzq = 11 -> on_format_impl(g, "dec P", <<p, irp>>)
              [] xzq = 193 -> on_format_impl(g, "pop G", <<p, irp>>)
              [] xzq = 197 -> on_format_impl(g, "push G", <<p, irp>>)
              [] OTHER -> Single(g, op, irp)
        Plain(g) ==
            Fields(g, g.op, get_y_part(g.op), get_z_part(g.op),
                   get_p_part(g.op), g.dstate.index_rp, And(g.op, x_mask),
                   And(g.op, Or(x_mask, z_mask)),
                   And(g.op, Or(Or(x_mask, z_mask), q_mask)))
        ResSet(g, fmt, b, r, irp, dd) ==
            IF irp = "hl" \/ r = reg_at_hl
            THEN on_format_impl(g, fmt, <<b, reg_at_hl, irp, dd>>)
            ELSE on_format_impl(g, fmt \o ", R",
                                <<b, reg_at_hl, irp, dd, r, "hl", 0>>)
        CbOpcode(g, op, b, r, irp, dd) ==
            CASE And(op, x_mask) = 64 ->
                    on_format_impl(g, "bit U, R", <<b, r, irp, dd>>)
              [] And(op, x_mask) = 128 -> ResSet(g, "res U, R", b, r, irp, dd)
              [] And(op, x_mask) = 192 -> ResSet(g, "set U, R", b, r, irp, dd)
              [] OTHER -> Abort(g)
        Cb(g, dd) ==
            CbOpcode(g, g.op, get_y_part(g.op), get_z_part(g.op),
                     g.dstate.index_rp, dd)
        CbDisp(g) == Cb(Fetch(g), g.v)
        LdRpAtNn(g, p) == on_format_impl(g, "ld P, (W)", <<p, "hl", g.v>>)
        LdAtNnRp(g, p) == on_format_impl(g, "ld (W), P", <<g.v, p, "hl">>)
        EdOpcode(g, op, y, p, xz) ==
            CASE xz = 66 ->
                    IF And(op, q_mask) # 0
                    THEN on_format_impl(g, "adc hl, P", <<p, "hl">>)
                    ELSE on_format_impl(g, "sbc hl, P", <<p, "hl">>)
              [] xz = 67 -> IF And(op, q_mask) # 0
                            THEN LdRpAtNn(Imm16(g), p)
                            ELSE LdAtNnRp(Imm16(g), p)
              [] xz = 70 -> on_format_impl(g, "im U", <<decode_int_mode(y)>>)
              [] xz = 128 ->
                    IF y < 4 THEN on_format_impl(g, "noni N, N", <<237, op>>)
                             ELSE on_format_impl(g, "L", <<y - 4>>)
              [] op = 71 -> on_format_impl(g, "ld i, a", <<>>)
              [] OTHER -> Abort(g)
        Ed(g) ==
            EdOpcode(g, g.op, get_y_part(g.op), get_p_part(g.op),
                     And(g.op, Or(x_mask, z_mask)))
        Prefixed(g) ==
            CASE g.dstate.prefix = "none" -> Plain(Fetch(g))
              [] g.dstate.prefix = "cb" ->
                    prefix_reset_guard(IF g.dstate.index_rp = "hl"
                                       THEN Cb(Fetch(g), 0)
                                       ELSE CbDisp(Read(g)))
              [] g.dstate.prefix = "ed" -> prefix_reset_guard(Ed(Fetch(g)))
    IN  Prefixed([d EXCEPT !.dstate.index_rp = d.dstate.next_index_rp,
                           !.dstate.next_index_rp = "hl"])

(***************************************************************************)
(* A fourth host, for the disassembler: it constructs one, may give it a   *)
(* program as its byte source, and calls disassemble() until the source    *)
(* is exhausted and no instruction is in progress.                         *)
(***************************************************************************)
LoadStream ==
    /\ steps = 0
    /\ loaded = NoLoad
    /\ \E prog \in Programs :
          /\ stream' = prog
          /\ loaded' = [prog |-> prog, preset |-> "stream", data |-> "none"]
    /\ UNCHANGED <<state, dstate, image, ticks, fault, bus, consumed, steps,
                   last, instr, lines, calls>>

\* one disassemble() call; the lines are collected per instruction
Disassemble ==
    /\ fault = "none"
    /\ steps = 0 \/ stream # <<>> \/ ~instr.done
    /\ LET Called(r) ==
               /\ StepTo([Machine EXCEPT !.dstate = r.dstate,
                                         !.fault = r.fault,
                                         !.consumed = r.consumed,
                                         !.op = r.op])
               /\ stream' = r.stream
               /\ lines' = (IF instr.done THEN <<>> ELSE lines) \o r.lines
               /\ UNCHANGED calls
       IN  Called(disassemble([dstate |-> dstate, stream |-> stream,
                               lines |-> <<>>, consumed |-> 0,
                               fault |-> "none", op |-> 0, v |-> 0]))

NextDis == LoadStream \/ Disassemble

SpecDis == Init /\ [][NextDis]_vars

(***************************************************************************)
(* A sixth host, for the loops: at address 0x100 it stores a block load    *)
(* (LDI, LDD, LDIR, LDDR) or a DJNZ that branches to itself, sets BC, HL   *)
(* and DE, and calls step() until PC has moved past the instruction.  With *)
(* BC = 0 the repeating block loads go through all of memory, so HL = DE   *)
(* there: every byte is copied onto itself and the instruction stays.      *)
(***************************************************************************)
LoadLoop ==
    /\ steps = 0
    /\ loaded = NoLoad
    /\ \E prog \in {<<237, 160>>, <<237, 168>>, <<237, 176>>, <<237, 184>>,
                    <<16, 254>>},
          k \in 0 .. MaxCount, same \in BOOLEAN :
          /\ (prog[2] \in {176, 184} /\ k = 0) => same
          /\ prog[1] = 16 => ~same
          /\ state' = [ResetState EXCEPT
                          !.bc = IF prog[1] = 16 THEN 256 * k ELSE k,
                          !.hl = 16384,
                          !.de = IF same THEN 16384 ELSE 24576,
                          !.pc = 256]
          /\ image' = Place(Place(DataImages.none, <<97, 98, 99>>, 16383),
                            prog, 256)
          /\ loaded' = [prog |-> prog, preset |-> "loop", data |-> "abc",
                        regs |-> state', image |-> image']
    /\ UNCHANGED <<dstate, ticks, fault, bus, consumed, steps, last, instr,
                   stream, lines, calls>>

\* step() is called while PC has not moved past the instruction
RunLoop ==
    /\ loaded # NoLoad
    /\ fault = "none"
    /\ state.pc # 258
    /\ StepTo(on_step(Machine))
    /\ UNCHANGED <<stream, lines, calls>>

NextLoop == LoadLoop \/ RunLoop

\* a step of RunLoop, told by its guard and the call counter alone
Called ==
    /\ loaded # NoLoad
    /\ fault = "none"
    /\ state.pc # 258
    /\ steps' = steps + 1

\* the host keeps calling step(): a call that stays possible is made
SpecLoop == Init /\ [][NextLoop]_vars /\ WF_steps(Called)

(***************************************************************************)
(* A last host, for the pair handlers: a processor whose half-register     *)
(* handlers (on_get_f, on_set_f, ...) are overridden to log their calls.  *)
(* It calls on_get_<pair> and on_set_<pair> on a fresh processor.  calls   *)
(* is the pair handler's call, with its result or argument, followed by    *)
(* the half-register handler calls it made, in order.                      *)
(***************************************************************************)
\* the most pair handler calls the host makes
MaxCalls == 3

\* A variant of pair_halves with the statements of each handler swapped.
pair_halves_high_first ==
    [af |-> <<"a", "f">>, hl |-> <<"h", "l">>, bc |-> <<"b", "c">>,
     de |-> <<"d", "e">>, ix |-> <<"ixh", "ixl">>, iy |-> <<"iyh", "iyl">>]

\* on_get_af .. on_set_iy: the half registers whose handlers each pair
\* handler calls, in the order of its two statements
pair_halves ==
    [af |-> <<"f", "a">>, hl |-> <<"l", "h">>, bc |-> <<"c", "b">>,
     de |-> <<"e", "d">>, ix |-> <<"ixl", "ixh">>, iy |-> <<"iyl", "iyh">>]

\* fast_u16 on_get_<rp>(): x = on_get_<first>(); y = on_get_<second>();
\* return make16(y, x).  get_half is get_b .. get_iyl.
GetPair ==
    /\ loaded = NoLoad
    /\ steps < MaxCalls
    /\ \E rp \in DOMAIN pair_halves :
          LET get_half(h) ==
                  CASE h = "b" -> get_high8(state.bc)
                    [] h = "c" -> get_low8(state.bc)
                    [] h = "d" -> get_high8(state.de)
                    [] h = "e" -> get_low8(state.de)
                    [] h = "h" -> get_high8(state.hl)
                    [] h = "l" -> get_low8(state.hl)
                    [] h = "a" -> get_high8(state.af)
                    [] h = "f" -> get_low8(state.af)
                    [] h = "ixh" -> get_high8(state.ix)
                    [] h = "ixl" -> get_low8(state.ix)
                    [] h = "iyh" -> get_high8(state.iy)
                    [] h = "iyl" -> get_low8(state.iy)
              x == get_half(pair_halves[rp][1])
              y == get_half(pair_halves[rp][2])
          IN  calls' = <<[h |-> "on_get_" \o rp, v |-> make16(y, x)],
                         [h |-> "on_get_" \o pair_halves[rp][1], v |-> x],
                         [h |-> "on_get_" \o pair_halves[rp][2], v |-> y]>>
    /\ steps' = steps + 1
    /\ UNCHANGED <<state, dstate, image, ticks, fault, bus, consumed, last,
                   instr, loaded, stream, lines>>

\* void on_set_<rp>(nn): on_set_<first>(get_low8(nn));
\* on_set_<second>(get_high8(nn)).  set_half is set_b .. set_iyl.
SetPair ==
    /\ loaded = NoLoad
    /\ steps < MaxCalls
    /\ \E rp \in DOMAIN pair_halves, nn \in {0, 255, 4847, 32769, 65280} :
          LET set_half(st, h, n) ==
                  CASE h = "b" -> [st EXCEPT !.bc = make16(n, get_low8(@))]
                    [] h = "c" -> [st EXCEPT !.bc = make16(get_high8(@), n)]
                    [] h = "d" -> [st EXCEPT !.de = make16(n, get_low8(@))]
                    [] h = "e" -> [st EXCEPT !.de = make16(get_high8(@), n)]
                    [] h = "h" -> [st EXCEPT !.hl = make16(n, get_low8(@))]
                    [] h = "l" -> [st EXCEPT !.hl = make16(get_high8(@), n)]
                    [] h = "a" -> [st EXCEPT !.af = make16(n, get_low8(@))]
                    [] h = "f" -> [st EXCEPT !.af = make16(get_high8(@), n)]
                    [] h = "ixh" -> [st EXCEPT !.ix = make16(n, get_low8(@))]
                    [] h = "ixl" -> [st EXCEPT !.ix = make16(get_high8(@), n)]
                    [] h = "iyh" -> [st EXCEPT !.iy = make16(n, get_low8(@))]
                    [] h = "iyl" -> [st EXCEPT !.iy = make16(get_high8(@), n)]
          IN  /\ state' = set_half(set_half(state, pair_halves[rp][1],
                                            get_low8(nn)),
                                   pair_halves[rp][2], get_high8(nn))
              /\ calls' = <<[h |-> "on_set_" \o rp, v |-> nn],
                            [h |-> "on_set_" \o pair_halves[rp][1],
                             v |-> get_low8(nn)],
                            [h |-> "on_set_" \o pair_halves[rp][2],
                             v |-> get_high8(nn)]>>
    /\ steps' = steps + 1
    /\ UNCHANGED <<dstate, image, ticks, fault, bus, consumed, last, instr,
                   loaded, stream, lines>>

NextPairs == GetPair \/ SetPair

SpecPairs == Init /\ [][NextPairs]_vars

(***************************************************************************)
(* Vocabulary of the properties.  They speak about the step() call that    *)
(* led to the current state: last.from is the state it started in, last.op *)
(* the opcode byte it fetched, bus and consumed what it did.               *)
(***************************************************************************)
\* the last step() call returned
Returned == steps > 0 /\ fault = "none"

\* the last step() call decoded its byte with no CB or ED prefix pending
Unprefixed == last.from.dstate.prefix = "none"

\* the last step() call decoded the byte after a CB prefix
CbStep == last.from.dstate.prefix = "cb"

\* ... with IX or IY selected
IndexedCbStep == CbStep /\ last.from.dstate.next_index_rp # "hl"

\* fields of the opcode the last step() fetched
OpX == last.op \div 64
OpY == (last.op \div 8) % 8
OpZ == last.op % 8

Bit(n, b) == (n \div (2 ^ b)) % 2
YXBits(n) == 32 * Bit(n, 5) + 8 * Bit(n, 3)
Signed(d) == IF d < 128 THEN d ELSE d - 256
High(nn) == nn \div 256
Low(nn) == nn % 256

\* the 8-bit register an opcode field names (6, the memory operand, aside)
Reg8(st, r) ==
    CASE r = 0 -> High(st.bc) [] r = 1 -> Low(st.bc)
      [] r = 2 -> High(st.de) [] r = 3 -> Low(st.de)
      [] r = 4 -> High(st.hl) [] r = 5 -> Low(st.hl)
      [] r = 7 -> High(st.af)

\* a register file with register r replaced by the byte n
WithReg8(st, r, n) ==
    CASE r = 0 -> [st EXCEPT !.bc = 256 * n + Low(@)]
      [] r = 1 -> [st EXCEPT !.bc = 256 * High(@) + n]
      [] r = 2 -> [st EXCEPT !.de = 256 * n + Low(@)]
      [] r = 3 -> [st EXCEPT !.de = 256 * High(@) + n]
      [] r = 4 -> [st EXCEPT !.hl = 256 * n + Low(@)]
      [] r = 5 -> [st EXCEPT !.hl = 256 * High(@) + n]
      [] r = 6 -> st
      [] r = 7 -> [st EXCEPT !.af = 256 * n + Low(@)]

\* a register file without the fields every instruction may move: PC, the
\* internal MEMPTR and last_read_addr, and the disable_int latch
Visible(st) ==
    [st EXCEPT !.pc = 0, !.memptr = 0, !.last_read_addr = 0,
               !.disable_int = FALSE]

\* the operand address of an indexed CB instruction: the displacement is
\* the byte at PC when the step starts
CbTarget ==
    ((IF last.from.dstate.next_index_rp = "ix" THEN last.from.state.ix
                                               ELSE last.from.state.iy)
       + Signed(at(last.from.image, last.from.state.pc))) % 65536

\* the bus saw a read of byte n at addr in a cycle of t T-states
BusRead(addr, n, t) ==
    \E i \in 1 .. Len(bus) - 1 :
        /\ bus[i] = [ev |-> "read", a |-> addr, v |-> n]
        /\ bus[i + 1] = [ev |-> "tick", a |-> 0, v |-> t]

\* ... and afterwards a write of byte n at addr
BusWriteAfterRead(addr, n) ==
    \E i, j \in 1 .. Len(bus) :
        /\ i < j
        /\ bus[i].ev = "read" /\ bus[i].a = addr
        /\ bus[j] = [ev |-> "write", a |-> addr, v |-> n]

(***************************************************************************)
(* C1.  Construction and NOP.                                              *)
(***************************************************************************)
\* C1: a freshly constructed processor has PC = 0, tick counter 0, every
\* register pair, MEMPTR, IR and SP 0, IFF1 = IFF2 = false, IM = 0, no
\* prefix and both index kinds HL; and a step() that executes opcode 0x00
\* advances PC by 1 modulo 65536 and the tick counter by 4 and changes no
\* other register, flag or memory byte.
C1_FreshStateAndNop ==
    /\ (steps = 0 /\ loaded = NoLoad) =>
          /\ state.pc = 0 /\ ticks = 0
          /\ state.af = 0 /\ state.bc = 0 /\ state.de = 0 /\ state.hl = 0
          /\ state.ix = 0 /\ state.iy = 0
          /\ state.alt_bc = 0 /\ state.alt_de = 0 /\ state.alt_hl = 0
          /\ state.memptr = 0 /\ state.ir = 0 /\ state.sp = 0
          /\ ~state.iff1 /\ ~state.iff2 /\ state.int_mode = 0
          /\ dstate.prefix = "none"
          /\ dstate.index_rp = "hl" /\ dstate.next_index_rp = "hl"
    /\ (Returned /\ Unprefixed /\ last.op = 0) =>
          /\ state.pc = (last.from.state.pc + 1) % 65536
          /\ ticks = last.from.ticks + 4
          /\ image = last.from.image
          /\ Visible(state) = Visible(last.from.state)
          /\ state.memptr = last.from.state.memptr

\* a NOP at address 65535 was executed with registers and flags set
C1_NopAtTopOfMemory ==
    /\ Returned /\ Unprefixed /\ last.op = 0
    /\ last.from.state.pc = 65535 /\ state.pc = 0
    /\ state.af = 42495 /\ state.iff1

(***************************************************************************)
(* C2.  What one step() call executes.                                     *)
(***************************************************************************)
\* the last step() fetched a prefix byte the decoder knows: CB, ED or FD
PrefixFetch == Unprefixed /\ last.op \in {203, 237, 253}

\* C2 as stated: every step() call that returns has executed one complete
\* instruction, prefix bytes included, so that no instruction is in
\* progress when it returns and none was when it began.
C2_EveryStepCompletes == Returned => instr.done /\ instr.pre = <<>>

\* C2, amended: a step() call that returns has either fetched exactly one
\* prefix byte (CB, ED or FD: one byte consumed, 4 T-states, no memory or
\* register change, the instruction left in progress) or has consumed the
\* rest of one instruction and ticked the rest of its bus cycles, leaving
\* no instruction in progress.
C2_StepFetchesPrefixOrCompletes ==
    Returned =>
        IF PrefixFetch
        THEN /\ consumed = 1
             /\ ticks = last.from.ticks + 4
             /\ image = last.from.image
             /\ Visible(state) = Visible(last.from.state)
             /\ state.pc = (last.from.state.pc + 1) % 65536
             /\ ~instr.done
        ELSE instr.done

\* the third step() of an FD CB d op instruction completed it
C2_ThirdStepCompletes ==
    Returned /\ instr.done /\ instr.pre = <<253, 203>> /\ consumed = 2

(***************************************************************************)
(* C3.  next_index_rp after a step.                                        *)
(***************************************************************************)
\* the last step() fetched a DD or FD prefix byte
IndexPrefixFetch == Unprefixed /\ last.op \in {221, 253}

\* C3 as stated: after a step() that returns and did not fetch a DD or FD
\* prefix byte, next_index_rp is HL.
C3_NextIndexIsHL ==
    (Returned /\ ~IndexPrefixFetch) => dstate.next_index_rp = "hl"

\* C3, amended: after a step() that returns and fetched neither a DD/FD
\* prefix byte nor a CB prefix byte, next_index_rp is HL; after a step()
\* that fetched a CB prefix byte, next_index_rp is the index kind that
\* step decoded with, so IX/IY selected by a preceding prefix is still
\* pending for the CB opcode.
C3_NextIndexAfterStep ==
    (Returned /\ ~IndexPrefixFetch) =>
        dstate.next_index_rp =
            (IF Unprefixed /\ last.op = 203 THEN dstate.index_rp ELSE "hl")

\* a CB prefix byte was fetched right after an FD prefix
C3_CbAfterIndexPrefix ==
    /\ Returned /\ Unprefixed /\ last.op = 203
    /\ dstate.index_rp = "iy" /\ dstate.next_index_rp = "iy"

(***************************************************************************)
(* C4, C5.  The index prefixes and disable_int.                            *)
(***************************************************************************)
\* C4: with no prefix pending, a step() that fetches 0xDD sets
\* next_index_rp to IX and one that fetches 0xFD sets it to IY; in both
\* cases disable_int becomes true, the prefix stays none and the step
\* returns after 4 T-states; and every step decodes with the index kind
\* that was pending when it began.
C4_IndexPrefixBytes ==
    /\ (steps > 0 /\ IndexPrefixFetch) =>
          /\ fault = "none"
          /\ dstate.next_index_rp = (IF last.op = 221 THEN "ix" ELSE "iy")
          /\ state.disable_int
          /\ dstate.prefix = "none"
          /\ ticks = last.from.ticks + 4
    /\ Returned => dstate.index_rp = last.from.dstate.next_index_rp

\* C5: disable_int is cleared at the top of each step(), so after a
\* step() that executes neither EI nor a DD/FD prefix it is false.
C5_DisableIntClearedNextStep ==
    (Returned /\ ~IndexPrefixFetch /\ ~(Unprefixed /\ last.op = 251)) =>
        ~state.disable_int

(***************************************************************************)
(* C6.  Documented T-states.                                               *)
(***************************************************************************)
\* whether condition cc (NZ, Z, NC, C, PO, PE, P, M) held when the
\* instruction began
CondHeld(cc) ==
    LET f == Low(instr.start.state.af)
        flag == CASE cc \div 2 = 0 -> Bit(f, 6)
                  [] cc \div 2 = 1 -> Bit(f, 0)
                  [] cc \div 2 = 2 -> Bit(f, 2)
                  [] cc \div 2 = 3 -> Bit(f, 7)
    IN  flag = cc % 2

\* the documented T-states of an opcode without prefix; 0 where the list
\* of C6 names no form
DocUnprefixed(op) ==
    LET x == op \div 64
        y == (op \div 8) % 8
        z == op % 8
        q == y % 2
        b == High(instr.start.state.bc)
    IN  CASE x = 1 /\ op # 118 -> IF y = 6 \/ z = 6 THEN 7 ELSE 4
          [] x = 2 -> IF z = 6 THEN 7 ELSE 4
          [] x = 0 /\ z \in {4, 5} -> IF y = 6 THEN 11 ELSE 4
          [] x = 0 /\ z = 6 -> IF y = 6 THEN 10 ELSE 7
          [] x = 0 /\ z = 0 /\ y >= 4 -> IF CondHeld(y - 4) THEN 12 ELSE 7
          [] x = 0 /\ z = 1 -> IF q = 0 THEN 10 ELSE 11
          [] x = 0 /\ z = 3 -> 6
          [] x = 3 /\ z = 0 -> IF CondHeld(y) THEN 11 ELSE 5
          [] x = 3 /\ z = 1 /\ q = 0 -> 10
          [] x = 3 /\ z = 5 /\ q = 0 -> 11
          [] x = 3 /\ z = 6 -> 7
          [] op \in {0, 15, 55, 63, 217, 233, 235, 243, 251} -> 4
          [] op = 16 -> IF (b + 255) % 256 # 0 THEN 13 ELSE 8
          [] op = 24 -> 12
          [] op \in {34, 42} -> 16
          [] op \in {50, 58} -> 13
          [] op \in {195, 201} -> 10
          [] op = 205 -> 17
          [] op = 211 -> 11
          [] op = 249 -> 6
          [] OTHER -> 0

\* ... of an opcode after the prefix bytes pre
DocT ==
    LET op == instr.op
        x == op \div 64
        y == (op \div 8) % 8
        z == op % 8
        bc == instr.start.state.bc
    IN  CASE instr.pre = <<>> -> DocUnprefixed(op)
          [] instr.pre = <<203>> ->
                CASE x = 1 -> IF z = 6 THEN 12 ELSE 8
                  [] x \in {2, 3} -> IF z = 6 THEN 15 ELSE 8
                  [] OTHER -> 0
          [] instr.pre = <<237>> ->
                CASE x = 1 /\ z = 2 -> 15
                  [] x = 1 /\ z = 3 -> 20
                  [] x = 1 /\ z = 6 -> 8
                  [] op = 71 -> 9
                  [] x = 2 /\ z = 0 /\ y >= 4 ->
                        IF y >= 6 /\ (bc + 65535) % 65536 # 0 THEN 21 ELSE 16
                  [] OTHER -> 0
          [] instr.pre \in {<<221>>, <<253>>} ->
                CASE x = 1 /\ op # 118 /\ (y = 6 \/ z = 6) -> 19
                  [] x = 2 /\ z = 6 -> 19
                  [] op = 54 -> 19
                  [] op \in {52, 53} -> 23
                  [] OTHER -> 0
          [] instr.pre \in {<<221, 203>>, <<253, 203>>} ->
                CASE x = 1 -> 20
                  [] x \in {2, 3} -> 23
                  [] OTHER -> 0
          [] OTHER -> 0

\* C6: when the step() calls that consume an instruction of a documented
\* form have returned, the tick counter has advanced by the documented
\* T-states of the form since the instruction began.
C6_DocumentedTicks ==
    (Returned /\ instr.done /\ DocT # 0) =>
        ticks - instr.start.ticks = DocT

(***************************************************************************)
(* C7.  SET 0,(IX+5).                                                      *)
(***************************************************************************)
\* C7: from reset with IX = 0x100, mem[0x105] = 0 and DD CB 05 C6 at
\* address 0, stepping does not abort, and once the four bytes are
\* consumed mem[0x105] = 1 (and PC = 4 is reached).
C7_IndexedSetScenario ==
    (loaded.prog = <<221, 203, 5, 198>> /\ loaded.preset = "ix100") =>
        /\ fault = "none"
        /\ state.pc >= 4 => at(image, 261) = 1

(***************************************************************************)
(* C8, C9, C10.  The CB-prefixed instructions.                             *)
(***************************************************************************)
\* the byte at the operand address of an indexed CB instruction before the
\* step, and that byte with bit b cleared or set
CbOld == at(last.from.image, CbTarget)
CbNew ==
    IF OpX = 2 THEN CbOld - Bit(CbOld, OpY) * 2 ^ OpY
               ELSE CbOld + (1 - Bit(CbOld, OpY)) * 2 ^ OpY

\* C8: an index-prefixed CB RES b / SET b with displacement d and register
\* field r reads the byte at (index pair + signed d), clears/sets bit b and
\* writes the new byte back to that address; when r is not (HL) the new
\* byte is also stored in register r, H and L being the real H and L; when
\* r is (HL) no register changes; the flags are unchanged.
C8_IndexedResSet ==
    (Returned /\ IndexedCbStep /\ OpX \in {2, 3}) =>
        /\ BusRead(CbTarget, CbOld, 4)
        /\ BusWriteAfterRead(CbTarget, CbNew)
        /\ image = Poke(last.from.image, CbTarget, CbNew)
        /\ Visible(state) = Visible(WithReg8(last.from.state, OpZ, CbNew))
        /\ Low(state.af) = Low(last.from.state.af)
        /\ state.pc = (last.from.state.pc + 2) % 65536

\* SET b,(IY+d) with register field H changed the byte and copied it to H,
\* leaving IY alone
C8_SetCopiedToH ==
    /\ Returned /\ IndexedCbStep /\ OpX = 3 /\ OpZ = 4
    /\ at(image, CbTarget) # CbOld
    /\ High(state.hl) = at(image, CbTarget)
    /\ High(state.hl) # High(last.from.state.hl)
    /\ state.iy = last.from.state.iy

\* the last step() executed BIT b,r without an index register, or
\* BIT b,(IX+d) / BIT b,(IY+d)
BitStep == Returned /\ CbStep /\ OpX = 1 /\ (IndexedCbStep => OpZ = 6)

\* the byte BIT tests
BitTested ==
    IF OpZ = 6
    THEN at(last.from.image,
            IF IndexedCbStep THEN CbTarget ELSE last.from.state.hl)
    ELSE Reg8(last.from.state, OpZ)

\* F after BIT, Y and X being copied from yx
BitFlags(yx) ==
    (Low(last.from.state.af) % 2) + 16
      + (IF Bit(BitTested, OpY) = 1 THEN (IF OpY = 7 THEN 128 ELSE 0)
                                    ELSE 68)
      + YXBits(yx)

\* the registers after BIT with the flags BitFlags(yx)
BitResult(yx) ==
    /\ image = last.from.image
    /\ Visible(state) =
          Visible([last.from.state EXCEPT
                      !.af = 256 * High(@) + BitFlags(yx)])

\* C9 as stated: BIT leaves the operand, A and memory unchanged and sets
\* F = old C | H | (S if b = 7 and the bit is 1) | (Z and P/V if the bit is
\* 0), N = 0; Y and X are bits 5 and 3 of the high byte of MEMPTR with an
\* index register and bits 5 and 3 of the tested byte in every other case.
C9_BitFlagsFromTestedByte ==
    BitStep =>
        BitResult(IF IndexedCbStep THEN High(state.memptr) ELSE BitTested)

\* C9, amended: (as above, but) Y and X are bits 5 and 3 of the high byte
\* of MEMPTR when the operand is a memory byte, (HL) without an index
\* register included, MEMPTR being the operand address with an index
\* register and unchanged without; they are bits 5 and 3 of the tested
\* register otherwise.
C9_BitFlagsFromMemptr ==
    BitStep =>
        /\ BitResult(IF OpZ = 6 THEN High(state.memptr) ELSE BitTested)
        /\ state.memptr = (IF IndexedCbStep THEN CbTarget
                                            ELSE last.from.state.memptr)

\* BIT b,(HL) left Y and X different from bits 5 and 3 of the tested byte
C9_BitAtHLTakesMemptr ==
    /\ BitStep /\ ~IndexedCbStep /\ OpZ = 6
    /\ YXBits(Low(state.af)) # YXBits(BitTested)
    /\ YXBits(Low(state.af)) = YXBits(High(last.from.state.memptr))

\* C10: with IX or IY selected every CB-prefixed BIT/RES/SET acts on the
\* memory byte at (index pair + signed d) whatever the register field r:
\* it reads that byte in a 4 T-state read cycle, and BIT sets Z exactly
\* when bit b of that byte is 0, not when bit b of register r is.
C10_IndexedCbActsOnMemory ==
    (Returned /\ IndexedCbStep /\ OpX \in {1, 2, 3}) =>
        /\ BusRead(CbTarget, CbOld, 4)
        /\ OpX = 1 => Bit(Low(state.af), 6) = 1 - Bit(CbOld, OpY)

(***************************************************************************)
(* C11.  Operands under an index prefix.                                   *)
(***************************************************************************)
\* the last step() decoded an opcode of the unprefixed table with IX or IY
\* selected
IndexedStep ==
    Returned /\ Unprefixed /\ last.from.dstate.next_index_rp # "hl"

\* the selected index pair in register file st
IndexPair(st) ==
    IF last.from.dstate.next_index_rp = "ix" THEN st.ix ELSE st.iy

\* register r read with H and L denoting the halves of the index pair
IndexReg8(st, r) ==
    CASE r = 4 -> High(IndexPair(st))
      [] r = 5 -> Low(IndexPair(st))
      [] OTHER -> Reg8(st, r)

\* the opcode has no memory operand and names H or L: LD r,r', alu r,
\* INC r, DEC r, LD r,n
NamesHalf ==
    \/ OpX = 1 /\ OpY # 6 /\ OpZ # 6 /\ (OpY \in {4, 5} \/ OpZ \in {4, 5})
    \/ OpX = 2 /\ OpZ \in {4, 5}
    \/ OpX = 0 /\ OpZ \in {4, 5, 6} /\ OpY \in {4, 5}

\* the opcode has the memory operand (HL)
NamesAtHL ==
    \/ OpX = 1 /\ ((OpY = 6) # (OpZ = 6))
    \/ OpX = 2 /\ OpZ = 6
    \/ OpX = 0 /\ OpZ \in {4, 5, 6} /\ OpY = 6

\* the byte following the opcode of the last step()
AfterOpcode == at(last.from.image, (last.from.state.pc + 1) % 65536)

\* C11: with IX or IY selected, H and L in an instruction of the
\* unprefixed table without memory operand denote the halves of the index
\* pair, which is read and written while HL is left unchanged; and a
\* memory operand (HL) is addressed as index pair + sign-extended d, d
\* being the byte right after the opcode.
C11_IndexedOperands ==
    /\ (IndexedStep /\ NamesHalf) =>
          /\ state.hl = last.from.state.hl
          /\ (OpX = 1 /\ OpY \in {4, 5}) =>
                IndexReg8(state, OpY) = IndexReg8(last.from.state, OpZ)
          /\ (OpX = 1 /\ OpY \notin {4, 5}) =>
                Reg8(state, OpY) = IndexReg8(last.from.state, OpZ)
          /\ (OpX = 0 /\ OpZ = 4) =>
                IndexReg8(state, OpY) =
                    (IndexReg8(last.from.state, OpY) + 1) % 256
          /\ (OpX = 0 /\ OpZ = 5) =>
                IndexReg8(state, OpY) =
                    (IndexReg8(last.from.state, OpY) + 255) % 256
          /\ (OpX = 0 /\ OpZ = 6) => IndexReg8(state, OpY) = AfterOpcode
    /\ (IndexedStep /\ NamesAtHL) =>
          \E i \in 1 .. Len(bus) :
              /\ bus[i].ev \in {"read", "write"}
              /\ bus[i].a = (IndexPair(last.from.state)
                               + Signed(AfterOpcode)) % 65536

(***************************************************************************)
(* C12, C13.  16-bit additions.                                            *)
(***************************************************************************)
\* register pair rp (BC, DE, HL, SP) of register file st, HL being the
\* pair selected by index kind irp
Pair(st, irp, rp) ==
    CASE rp = 0 -> st.bc
      [] rp = 1 -> st.de
      [] rp = 2 -> (CASE irp = "hl" -> st.hl [] irp = "ix" -> st.ix
                      [] irp = "iy" -> st.iy)
      [] rp = 3 -> st.sp

\* the flag bits a 16-bit a + b + c (sub = FALSE) or a - b - c (sub = TRUE)
\* produces: carry/borrow out of bit 15 (C) and of bit 11 (H), signed
\* overflow (P/V), as 0 or 1
Carry16(a, b, c, sub) ==
    IF sub THEN (IF a - b - c < 0 THEN 1 ELSE 0)
           ELSE (IF a + b + c > 65535 THEN 1 ELSE 0)
Half16(a, b, c, sub) ==
    IF sub THEN (IF (a % 4096) - (b % 4096) - c < 0 THEN 1 ELSE 0)
           ELSE (IF (a % 4096) + (b % 4096) + c > 4095 THEN 1 ELSE 0)
Signed16(n) == IF n < 32768 THEN n ELSE n - 65536
Overflow16(a, b, c, sub) ==
    LET v == IF sub THEN Signed16(a) - Signed16(b) - c
                    ELSE Signed16(a) + Signed16(b) + c
    IN  IF v < -32768 \/ v > 32767 THEN 1 ELSE 0

\* the last step() executed ADD HL,rp, with or without an index register
AddPairStep == Returned /\ Unprefixed /\ OpX = 0 /\ OpZ = 1 /\ OpY % 2 = 1

\* C12: ADD HL,rp (ADD IX/IY,rp under an index prefix) stores
\* (pair + rp) mod 65536 in the pair, sets MEMPTR to the old pair + 1 and
\* updates F: S, Z and P/V keep their values, Y and X are bits 5 and 3 of
\* the result's high byte, H is the carry out of bit 11 and C the carry out
\* of bit 15; LD HL,0x8000; ADD HL,HL from reset gives HL = 0,
\* MEMPTR = 0x8001, C = 1, H = 0 after 10 + 11 T-states.
C12_AddPair ==
    /\ AddPairStep =>
          LET irp == last.from.dstate.next_index_rp
              i == Pair(last.from.state, irp, 2)
              n == Pair(last.from.state, irp, OpY \div 2)
              r == (i + n) % 65536
              f == Low(state.af)
              old == Low(last.from.state.af)
          IN  /\ Pair(state, irp, 2) = r
              /\ state.memptr = (i + 1) % 65536
              /\ Bit(f, 7) = Bit(old, 7) /\ Bit(f, 6) = Bit(old, 6)
              /\ Bit(f, 2) = Bit(old, 2)
              /\ YXBits(f) = YXBits(High(r))
              /\ Bit(f, 4) = Half16(i, n, 0, FALSE)
              /\ Bit(f, 0) = Carry16(i, n, 0, FALSE)
    /\ (Returned /\ loaded.prog = <<33, 0, 128, 41>> /\ loaded.preset = "reset"
          /\ steps = 2) =>
          /\ state.hl = 0 /\ state.memptr = 32769 /\ ticks = 21
          /\ Bit(Low(state.af), 0) = 1 /\ Bit(Low(state.af), 4) = 0

\* the last step() decoded the byte after an ED prefix
EdStep == last.from.dstate.prefix = "ed"

\* C13: ADC HL,rp stores (HL + rp + C) mod 65536 and SBC HL,rp stores
\* (HL - rp - C) mod 65536 in HL; S, Y, X are bits 7, 5, 3 of the result's
\* high byte, Z is set iff the result is 0, H is the carry/borrow out of
\* bit 11, C the carry/borrow out of bit 15, P/V the signed 16-bit overflow
\* (carry-in included), N is 0 for ADC and 1 for SBC, MEMPTR = old HL + 1.
C13_AdcSbcPair ==
    (Returned /\ EdStep /\ OpX = 1 /\ OpZ = 2) =>
        LET sub == OpY % 2 = 0
            hl == last.from.state.hl
            n == Pair(last.from.state, "hl", OpY \div 2)
            c == Low(last.from.state.af) % 2
            r == (IF sub THEN hl - n - c + 131072 ELSE hl + n + c) % 65536
        IN  /\ state.hl = r
            /\ state.memptr = (hl + 1) % 65536
            /\ Low(state.af) =
                  128 * Bit(r, 15) + 64 * (IF r = 0 THEN 1 ELSE 0)
                    + YXBits(High(r)) + 16 * Half16(hl, n, c, sub)
                    + 4 * Overflow16(hl, n, c, sub)
                    + 2 * (IF sub THEN 1 ELSE 0) + Carry16(hl, n, c, sub)

(***************************************************************************)
(* C14, C15, C16.  8-bit arithmetic and logic.                             *)
(***************************************************************************)
\* the last step() executed alu r, alu (HL), alu (i+d) or alu n; under an
\* index prefix the forms naming H or L are left to C11
AluStep ==
    /\ Returned /\ Unprefixed
    /\ OpX = 2 \/ (OpX = 3 /\ OpZ = 6)
    /\ ~(last.from.dstate.next_index_rp # "hl" /\ OpX = 2 /\ OpZ \in {4, 5})

\* the address of the operand (HL) or (i+d) of the last step()
AtHL ==
    LET irp == last.from.dstate.next_index_rp
    IN  IF irp = "hl" THEN last.from.state.hl
        ELSE (Pair(last.from.state, irp, 2) + Signed(AfterOpcode)) % 65536

\* the accumulator before the last step() and the operand of its alu
AluA == High(last.from.state.af)
AluN ==
    CASE OpX = 3 -> AfterOpcode
      [] OpX = 2 /\ OpZ = 6 -> at(last.from.image, AtHL)
      [] OTHER -> Reg8(last.from.state, OpZ)

\* S, Y and X of a byte, and Z
SYXBits(n) == 128 * Bit(n, 7) + YXBits(n)
ZBit(n) == IF n % 256 = 0 THEN 64 ELSE 0

\* carry out of bit 7 and of bit 3, and signed overflow, of a + n (sub =
\* FALSE) and a - n (sub = TRUE), as 0 or 1
Carry8(a, n, sub) ==
    IF sub THEN (IF a < n THEN 1 ELSE 0) ELSE (IF a + n > 255 THEN 1 ELSE 0)
Half8(a, n, sub) ==
    IF sub THEN (IF a % 16 < n % 16 THEN 1 ELSE 0)
           ELSE (IF (a % 16) + (n % 16) > 15 THEN 1 ELSE 0)
Overflow8(a, n, sub) ==
    LET v == IF sub THEN Signed(a) - Signed(n) ELSE Signed(a) + Signed(n)
    IN  IF v < -128 \/ v > 127 THEN 1 ELSE 0

\* the flags of a + n and a - n, Y and X copied from yx
ArithFlags(a, n, sub, yx) ==
    LET r == (IF sub THEN a - n + 256 ELSE a + n) % 256
    IN  128 * Bit(r, 7) + ZBit(r) + YXBits(yx) + 16 * Half8(a, n, sub)
          + 4 * Overflow8(a, n, sub) + (IF sub THEN 2 ELSE 0)
          + Carry8(a, n, sub)

\* the last step() left A = a and F = f and changed nothing else but PC and
\* the internal latches
AluResult(a, f) ==
    /\ image = last.from.image
    /\ Visible(state) = Visible([last.from.state EXCEPT !.af = 256 * a + f])

\* C14: for every A and operand n (register, (HL)/(i+d) or immediate), ADD
\* sets A = (A + n) mod 256 with S, Y, X from the result, Z iff the result
\* is 0, H the carry out of bit 3, P/V the signed overflow, N = 0 and C the
\* carry out of bit 7; SUB sets A = (A - n) mod 256 with the same rules for
\* the borrows and N = 1; CP leaves A unchanged and computes the flags of
\* SUB with Y and X taken from n.
C14_AddSubCp ==
    /\ (AluStep /\ OpY = 0) =>
          AluResult((AluA + AluN) % 256,
                    ArithFlags(AluA, AluN, FALSE, (AluA + AluN) % 256))
    /\ (AluStep /\ OpY = 2) =>
          AluResult((AluA - AluN + 256) % 256,
                    ArithFlags(AluA, AluN, TRUE, (AluA - AluN + 256) % 256))
    /\ (AluStep /\ OpY = 7) =>
          AluResult(AluA, ArithFlags(AluA, AluN, TRUE, AluN))

\* ADD A,(IY+d) added 0x80 to 0x80: A = 0 with Z, P/V and C
C14_AddOverflowed ==
    /\ AluStep /\ OpY = 0 /\ OpZ = 6
    /\ last.from.dstate.next_index_rp = "iy"
    /\ AluA = 128 /\ AluN = 128 /\ state.af = 69

\* a AND n, a XOR n, a OR n (k = 4, 5, 6) bit by bit
LogicBit(a, n, k, i) ==
    CASE k = 4 -> Bit(a, i) * Bit(n, i)
      [] k = 5 -> (Bit(a, i) + Bit(n, i)) % 2
      [] k = 6 -> IF Bit(a, i) + Bit(n, i) > 0 THEN 1 ELSE 0
Logic(a, n, k) ==
    LogicBit(a, n, k, 0) + 2 * LogicBit(a, n, k, 1)
      + 4 * LogicBit(a, n, k, 2) + 8 * LogicBit(a, n, k, 3)
      + 16 * LogicBit(a, n, k, 4) + 32 * LogicBit(a, n, k, 5)
      + 64 * LogicBit(a, n, k, 6) + 128 * LogicBit(a, n, k, 7)

\* the number of 1 bits of a byte
Ones(n) ==
    Bit(n, 0) + Bit(n, 1) + Bit(n, 2) + Bit(n, 3) + Bit(n, 4) + Bit(n, 5)
      + Bit(n, 6) + Bit(n, 7)

\* C15: for every A and operand n, AND/OR/XOR store the bitwise result in
\* A and set F to exactly: S, Y, X copied from the result, Z iff the result
\* is 0, P/V iff the result has an even number of 1 bits, H set for AND and
\* clear for OR and XOR, N = 0 and C = 0.
C15_AndOrXor ==
    (AluStep /\ OpY \in {4, 5, 6}) =>
        LET r == Logic(AluA, AluN, OpY)
        IN  AluResult(r, SYXBits(r) + ZBit(r)
                           + (IF Ones(r) % 2 = 0 THEN 4 ELSE 0)
                           + (IF OpY = 4 THEN 16 ELSE 0))

\* XOR 0x0F on A = 0xF1 left 0xFE, seven 1 bits: S, Y and X set, P/V clear
C15_XorOddParity ==
    /\ AluStep /\ OpY = 5 /\ OpX = 3
    /\ AluA = 241 /\ AluN = 15 /\ state.af = 256 * 254 + 168

\* the last step() executed INC r or DEC r, r a register or the memory
\* operand; under an index prefix the forms naming H or L are left to C11
IncDecStep ==
    /\ Returned /\ Unprefixed /\ OpX = 0 /\ OpZ \in {4, 5}
    /\ ~(last.from.dstate.next_index_rp # "hl" /\ OpY \in {4, 5})

\* the operand before the step
IncDecOld ==
    IF OpY = 6 THEN at(last.from.image, AtHL) ELSE Reg8(last.from.state, OpY)

\* C16: INC r stores (v + 1) mod 256 and DEC r stores (v - 1) mod 256 in
\* the operand (register or memory byte); C keeps its value; S, Y, X are
\* copied from the result; Z is set iff the result is 0; for INC N = 0, H
\* is set iff the result's low nibble is 0 and P/V iff the result is 0x80;
\* for DEC N = 1, H is set iff the result's low nibble is 0xF and P/V iff
\* the result is 0x7F.
C16_IncDec ==
    IncDecStep =>
        LET inc == OpZ = 4
            r == (IF inc THEN IncDecOld + 1 ELSE IncDecOld + 255) % 256
            f == (Low(last.from.state.af) % 2) + SYXBits(r) + ZBit(r)
                   + (IF r % 16 = (IF inc THEN 0 ELSE 15) THEN 16 ELSE 0)
                   + (IF r = (IF inc THEN 128 ELSE 127) THEN 4 ELSE 0)
                   + (IF inc THEN 0 ELSE 2)
        IN  /\ image = (IF OpY = 6 THEN Poke(last.from.image, AtHL, r)
                                   ELSE last.from.image)
            /\ Visible(state) =
                  Visible(WithReg8([last.from.state EXCEPT
                                       !.af = 256 * High(@) + f], OpY, r))

\* INC A with A = 0x7F gave A = 0x80 with S, H and P/V set, Z and N clear
C16_IncAToSign ==
    /\ IncDecStep /\ OpZ = 4 /\ OpY = 7
    /\ last.from.state.af = 256 * 127 /\ state.af = 256 * 128 + 148

(***************************************************************************)
(* C17, C18.  Block loads.                                                 *)
(***************************************************************************)
\* the memory after the first i copies mem[DE0 + j] := mem[HL0 + j] made
\* one after the other from the memory and registers loaded
RECURSIVE CopiedImage(_)
CopiedImage(i) ==
    IF i = 0 THEN loaded.image
    ELSE Poke(CopiedImage(i - 1), (loaded.regs.de + i - 1) % 65536,
              at(CopiedImage(i - 1), (loaded.regs.hl + i - 1) % 65536))

\* the copies due after the step() calls made so far with BC = K loaded
CopiesDue ==
    IF steps >= 2 * loaded.regs.bc THEN loaded.regs.bc ELSE steps \div 2

\* the bus saw byte n read at src and then written at dst
BusCopied(src, dst, n) ==
    \E i, j \in 1 .. Len(bus) :
        /\ i < j
        /\ bus[i] = [ev |-> "read", a |-> src, v |-> n]
        /\ bus[j] = [ev |-> "write", a |-> dst, v |-> n]

\* the bus saw a write in the last step()
BusWrote == \E i \in 1 .. Len(bus) : bus[i].ev = "write"

BlockStep == Returned /\ EdStep /\ OpX = 2 /\ OpZ = 0 /\ OpY >= 4

\* ... and is to repeat: LDIR or LDDR with the new BC not 0
BlockRepeats == OpY >= 6 /\ state.bc # 0

\* C18: one iteration of LDI/LDD/LDIR/LDDR copies mem[HL] to mem[DE], adds
\* +1 to HL and DE for LDI/LDIR and -1 for LDD/LDDR, decrements BC, keeps
\* S, Z and C, clears H and N, sets P/V iff the new BC is not 0 and takes Y
\* from bit 1 and X from bit 3 of (byte + A); a repeating variant with new
\* BC not 0 rewinds PC to the ED prefix byte and sets MEMPTR to that PC + 1;
\* otherwise PC and MEMPTR are as after a non-repeating instruction.
C18_BlockIteration ==
    BlockStep =>
        LET old == last.from.state
            byte == at(last.from.image, old.hl)
            t == (byte + High(old.af)) % 256
            by == IF OpY % 2 = 0 THEN 1 ELSE 65535
            f == Low(state.af)
        IN  /\ image = Poke(last.from.image, old.de, byte)
            /\ state.hl = (old.hl + by) % 65536
            /\ state.de = (old.de + by) % 65536
            /\ state.bc = (old.bc + 65535) % 65536
            /\ f = 128 * Bit(Low(old.af), 7) + 64 * Bit(Low(old.af), 6)
                     + Bit(Low(old.af), 0) + 32 * Bit(t, 1) + 8 * Bit(t, 3)
                     + (IF state.bc # 0 THEN 4 ELSE 0)
            /\ state.pc = (IF BlockRepeats THEN old.pc + 65535
                                           ELSE old.pc + 1) % 65536
            /\ state.memptr = (IF BlockRepeats THEN old.pc ELSE old.memptr)

(***************************************************************************)
(* C19.  Exchanges.                                                        *)
(***************************************************************************)
\* C19: EXX swaps BC with BC', DE with DE', HL with HL' and leaves AF, IX,
\* IY, SP, MEMPTR and memory unchanged; EXX twice restores BC, DE, HL and
\* the alternate bank; EX DE,HL swaps DE and HL, and twice restores both.
C19_Exchanges ==
    /\ (Returned /\ Unprefixed /\ last.op = 217) =>
          /\ image = last.from.image
          /\ state.memptr = last.from.state.memptr
          /\ Visible(state) =
                Visible([last.from.state EXCEPT
                            !.bc = last.from.state.alt_bc,
                            !.de = last.from.state.alt_de,
                            !.hl = last.from.state.alt_hl,
                            !.alt_bc = last.from.state.bc,
                            !.alt_de = last.from.state.de,
                            !.alt_hl = last.from.state.hl])
    /\ (Returned /\ Unprefixed /\ last.op = 235) =>
          /\ image = last.from.image
          /\ state.memptr = last.from.state.memptr
          /\ Visible(state) =
                Visible([last.from.state EXCEPT
                            !.de = last.from.state.hl,
                            !.hl = last.from.state.de])
    /\ (Returned /\ steps = 2
          /\ loaded.prog \in {<<217, 217, 0>>, <<235, 235, 0>>}) =>
          Visible(state) = Visible(Presets[loaded.preset])

\* the second EXX brought BC and BC' back
C19_ExxTwiceRestored ==
    /\ Returned /\ loaded.prog = <<217, 217, 0>> /\ loaded.preset = "high"
    /\ steps = 2 /\ last.from.state.bc = 4369 /\ last.from.state.hl = 13107
    /\ state.bc = 256 /\ state.alt_bc = 4369 /\ state.hl = 16400

(***************************************************************************)
(* C20.  CALL and RET.                                                     *)
(***************************************************************************)
\* condition cc (NZ, Z, NC, C, PO, PE, P, M) holds for the flags f
Holds(cc, f) ==
    CASE cc = 0 -> Bit(f, 6) = 0 [] cc = 1 -> Bit(f, 6) = 1
      [] cc = 2 -> Bit(f, 0) = 0 [] cc = 3 -> Bit(f, 0) = 1
      [] cc = 4 -> Bit(f, 2) = 0 [] cc = 5 -> Bit(f, 2) = 1
      [] cc = 6 -> Bit(f, 7) = 0 [] cc = 7 -> Bit(f, 7) = 1

\* the 16-bit word at addr, low byte first
Word(img, addr) == at(img, addr) + 256 * at(img, (addr + 1) % 65536)

\* the last step() executed CALL nn / RET or RET cc
CallStep == Returned /\ Unprefixed /\ last.op = 205
RetStep == Returned /\ Unprefixed /\ (last.op = 201 \/ (OpX = 3 /\ OpZ = 0))
RetTaken == last.op = 201 \/ Holds(OpY, Low(last.from.state.af))

\* C20: CALL nn at p writes the high byte of p + 3 to mem[SP - 1] and the
\* low byte to mem[SP - 2], sets SP to SP - 2 and PC and MEMPTR to nn; RET,
\* and RET cc when the condition holds, set PC and MEMPTR to the word at
\* mem[SP] and SP to SP + 2; CALL nn followed by RET at nn resumes at p + 3
\* with SP restored; RET cc with a false condition changes neither SP nor
\* MEMPTR, and PC only by the opcode fetch.
C20_CallRet ==
    /\ CallStep =>
          LET old == last.from.state
              nn == Word(last.from.image, (old.pc + 1) % 65536)
              ret == (old.pc + 3) % 65536
          IN  /\ image = Poke(Poke(last.from.image, (old.sp + 65535) % 65536,
                                   High(ret)),
                              (old.sp + 65534) % 65536, Low(ret))
              /\ state.pc = nn /\ state.memptr = nn
              /\ Visible(state) =
                    Visible([old EXCEPT !.sp = (@ + 65534) % 65536])
    /\ (RetStep /\ RetTaken) =>
          LET old == last.from.state
              to == Word(last.from.image, old.sp)
          IN  /\ image = last.from.image
              /\ state.pc = to /\ state.memptr = to
              /\ Visible(state) = Visible([old EXCEPT !.sp = (@ + 2) % 65536])
    /\ (RetStep /\ ~RetTaken) =>
          /\ image = last.from.image
          /\ state.pc = (last.from.state.pc + 1) % 65536
          /\ state.memptr = last.from.state.memptr
          /\ Visible(state) = Visible(last.from.state)
    /\ (Returned /\ steps = 2
          /\ loaded.prog = CallRet(Presets[loaded.preset].pc)) =>
          /\ state.pc = (Presets[loaded.preset].pc + 3) % 65536
          /\ state.sp = Presets[loaded.preset].sp

\* CALL 0x104 at 0x100 with SP = 0xFFFF and the RET at 0x104 came back to
\* 0x103 with SP restored
C20_CallReturned ==
    /\ Returned /\ steps = 2 /\ loaded.preset = "low"
    /\ loaded.prog = CallRet(256) /\ last.op = 201
    /\ last.from.state.sp = 65533 /\ last.from.state.pc = 260
    /\ at(image, 65534) = 1 /\ at(image, 65533) = 3
    /\ state.pc = 259 /\ state.sp = 65535

(***************************************************************************)
(* C21.  Jumps.                                                            *)
(***************************************************************************)
\* the last step() executed JR d, JR cc,d, DJNZ d / JP nn
JrStep == Returned /\ Unprefixed /\ last.op \in {16, 24, 32, 40, 48, 56}
JpStep == Returned /\ Unprefixed /\ last.op = 195

\* whether the relative jump of the last step() has to be taken: always
\* for JR, by the Z or C flag for JR cc (NZ, Z, NC, C), and for DJNZ when
\* B - 1 is not 0
JrTaken ==
    CASE last.op = 24 -> TRUE
      [] last.op = 16 -> (High(last.from.state.bc) + 255) % 256 # 0
      [] OTHER -> Holds(OpY - 4, Low(last.from.state.af))

\* C21: JR d, JR cc,d and DJNZ d at p, when taken, set PC and MEMPTR to
\* (p + 2 + signed(d)) mod 65536; JR cc is taken iff Z (NZ, Z) or C (NC, C)
\* has the value cc requires; DJNZ always decrements B mod 256 and is taken
\* iff the new B is not 0; a jump not taken leaves PC = p + 2 and MEMPTR
\* unchanged; JP nn sets PC and MEMPTR to nn.
C21_Jumps ==
    /\ JrStep =>
          LET old == last.from.state
              d == at(last.from.image, (old.pc + 1) % 65536)
              to == (old.pc + 2 + Signed(d) + 65536) % 65536
          IN  /\ JrTaken => state.pc = to /\ state.memptr = to
              /\ ~JrTaken =>
                    /\ state.pc = (old.pc + 2) % 65536
                    /\ state.memptr = old.memptr
              /\ image = last.from.image
              /\ Visible(state) =
                    Visible(IF last.op = 16
                            THEN [old EXCEPT
                                     !.bc = 256 * ((High(@) + 255) % 256)
                                            + Low(@)]
                            ELSE old)
    /\ JpStep =>
          LET nn == Word(last.from.image, (last.from.state.pc + 1) % 65536)
          IN  /\ state.pc = nn /\ state.memptr = nn
              /\ image = last.from.image
              /\ Visible(state) = Visible(last.from.state)

\* JR NZ,-2 at 0 with Z clear jumped back to 0 in 12 T-states
C21_JumpedBack ==
    /\ JrStep /\ last.op = 32 /\ last.from.state.pc = 0
    /\ at(last.from.image, 1) = 254 /\ Low(last.from.state.af) = 0
    /\ state.pc = 0 /\ state.memptr = 0 /\ ticks = last.from.ticks + 12

(***************************************************************************)
(* C22.  LD (nn),A and OUT (n),A.                                          *)
(***************************************************************************)
\* the bus events of kind ev of the last step()
BusEvents(ev) == SelectSeq(bus, LAMBDA e : e.ev = ev)

\* C22: LD (nn),A writes A to mem[nn] and sets MEMPTR to
\* (A << 8) | ((nn + 1) & 0xFF); OUT (n),A performs one output cycle with
\* port (A << 8) | n and value A, writes no memory and sets MEMPTR to
\* (A << 8) | ((n + 1) & 0xFF); neither changes A or F.
C22_StoreAndOut ==
    /\ (Returned /\ Unprefixed /\ last.op = 50) =>
          LET old == last.from.state
              nn == Word(last.from.image, (old.pc + 1) % 65536)
          IN  /\ image = Poke(last.from.image, nn, High(old.af))
              /\ BusEvents("write") =
                    <<[ev |-> "write", a |-> nn, v |-> High(old.af)]>>
              /\ BusEvents("out") = <<>>
              /\ state.memptr = 256 * High(old.af) + ((nn + 1) % 256)
              /\ state.pc = (old.pc + 3) % 65536
              /\ Visible(state) = Visible(old)
    /\ (Returned /\ Unprefixed /\ last.op = 211) =>
          LET old == last.from.state
              n == at(last.from.image, (old.pc + 1) % 65536)
          IN  /\ image = last.from.image
              /\ BusEvents("write") = <<>>
              /\ BusEvents("out") =
                    <<[ev |-> "out", a |-> 256 * High(old.af) + n,
                       v |-> High(old.af)]>>
              /\ state.memptr = 256 * High(old.af) + ((n + 1) % 256)
              /\ state.pc = (old.pc + 2) % 65536
              /\ Visible(state) = Visible(old)

\* LD (0x12FF),A with A = 0xA5 stored 0xA5 and left MEMPTR = 0xA500
C22_StoredAtPageEnd ==
    /\ Returned /\ Unprefixed /\ last.op = 50
    /\ High(last.from.state.af) = 165 /\ at(last.from.image, 4863) = 0
    /\ at(image, 4863) = 165 /\ state.memptr = 42240 /\ state.af = 42495

(***************************************************************************)
(* C23.  EI, DI and the interrupt flip-flops.                              *)
(***************************************************************************)
\* the last step() executed EI / DI
EiStep == Returned /\ Unprefixed /\ last.op = 251
DiStep == Returned /\ Unprefixed /\ last.op = 243

\* C23: after EI, IFF1 = IFF2 = true and disable_int is true; after DI,
\* IFF1 = IFF2 = false; IFF1 = IFF2 in every reachable state; and no
\* instruction other than EI and DI changes IFF1 or IFF2.
C23_InterruptFlipFlops ==
    /\ EiStep => state.iff1 /\ state.iff2 /\ state.disable_int
    /\ DiStep => ~state.iff1 /\ ~state.iff2
    /\ state.iff1 = state.iff2
    /\ (steps > 0 /\ ~(Unprefixed /\ last.op \in {243, 251})) =>
          /\ state.iff1 = last.from.state.iff1
          /\ state.iff2 = last.from.state.iff2

\* EI was executed with interrupts disabled, and afterwards a NOP left
\* them enabled
C23_EnabledAndKept ==
    /\ Returned /\ steps = 2 /\ loaded.prog = <<251, 0, 0>>
    /\ loaded.preset = "reset" /\ last.op = 0
    /\ ~Presets[loaded.preset].iff1 /\ last.from.state.iff1
    /\ state.iff1 /\ state.iff2

(***************************************************************************)
(* C24.  RRCA, SCF and CCF.                                                *)
(***************************************************************************)
\* S, Z and P/V of the flags f
SZPBits(f) == 128 * Bit(f, 7) + 64 * Bit(f, 6) + 4 * Bit(f, 2)

\* the last step() executed RRCA, SCF or CCF
AccStep == Returned /\ Unprefixed /\ last.op \in {15, 55, 63}

\* C24: RRCA rotates A right by one bit (new bit 7 = old bit 0), sets C to
\* the old bit 0, keeps S, Z and P/V, takes Y and X from the new A and
\* clears H and N; SCF sets C, clears H and N, keeps S, Z and P/V and takes
\* Y and X from A; CCF sets C to the complement of the old C, H to the old
\* C, clears N, keeps S, Z and P/V and takes Y and X from A; SCF and CCF
\* leave A unchanged; and CCF executed twice restores C.
C24_RotateAndCarry ==
    /\ AccStep =>
          LET old == last.from.state
              a == High(old.af)
              f == Low(old.af)
              ra == (a \div 2) + 128 * (a % 2)
              af == CASE last.op = 15 ->
                            256 * ra + SZPBits(f) + YXBits(ra) + (a % 2)
                      [] last.op = 55 ->
                            256 * a + SZPBits(f) + YXBits(a) + 1
                      [] last.op = 63 ->
                            256 * a + SZPBits(f) + YXBits(a)
                               + 16 * Bit(f, 0) + (1 - Bit(f, 0))
          IN  /\ state.af = af
              /\ image = last.from.image
              /\ state.memptr = old.memptr
              /\ Visible(state) = Visible([old EXCEPT !.af = af])
    /\ (Returned /\ loaded.prog = <<63, 63>> /\ steps = 2) =>
          /\ Bit(state.af, 0) = Bit(loaded.regs.af, 0)
          /\ Bit(last.from.state.af, 0) = 1 - Bit(loaded.regs.af, 0)

\* RRCA with F = 0xFF turned A = 0x81 into 0xC0, F into 0xC5
C24_RotatedThroughBit7 ==
    /\ AccStep /\ last.op = 15 /\ last.from.state.af = 33279
    /\ state.af = 49349

(***************************************************************************)
(* C25.  IM.                                                               *)
(***************************************************************************)
\* the last step() executed an ED opcode with x = 1 and z = 6
ImStep == Returned /\ EdStep /\ OpX = 1 /\ OpZ = 6

\* C25: every ED opcode with x = 1 and z = 6 sets the interrupt mode to
\* the image of the low two bits of y under 0 -> 0, 1 -> 0, 2 -> 1, 3 -> 2,
\* and the stored interrupt mode is 0, 1 or 2 in every reachable state.
C25_InterruptMode ==
    /\ ImStep =>
          /\ state.int_mode =
                (CASE OpY % 4 = 0 -> 0 [] OpY % 4 = 1 -> 0
                   [] OpY % 4 = 2 -> 1 [] OpY % 4 = 3 -> 2)
          /\ image = last.from.image
          /\ state.memptr = last.from.state.memptr
          /\ Visible(state) =
                Visible([last.from.state EXCEPT !.int_mode = state.int_mode])
    /\ state.int_mode \in 0 .. 2

\* ED 76 (y = 6) changed the mode from 2 to 1
C25_ModeOneSelected ==
    /\ ImStep /\ last.op = 118 /\ last.from.state.int_mode = 2
    /\ state.int_mode = 1

(***************************************************************************)
(* C26.  The bytes after a CB or ED prefix.                                *)
(***************************************************************************)
\* an ED opcode outside the ED instruction table: x = 0, x = 3, and x = 2
\* except the block instructions (y >= 4 and z <= 3)
UndefinedEd(op) ==
    \/ op \div 64 \in {0, 3}
    \/ op \div 64 = 2 /\ ((op \div 8) % 8 < 4 \/ op % 8 > 3)

\* the last step() left everything but PC and the tick counter alone and
\* took the 4 T-states of the opcode fetch
NoOperation ==
    /\ image = last.from.image
    /\ state.memptr = last.from.state.memptr
    /\ Visible(state) = Visible(last.from.state)
    /\ state.pc = (last.from.state.pc + 1) % 65536
    /\ ticks = last.from.ticks + 4

\* C26: no byte following a CB or ED prefix makes the simulator abort: all
\* 256 CB opcodes are decoded to a handler, and every ED opcode that is not
\* a defined ED instruction executes as a no-op that changes no register,
\* flag or memory byte, only PC and the tick counter, and leaves the prefix
\* none.
C26_NoAbortAfterPrefix ==
    /\ (steps > 0 /\ (CbStep \/ EdStep)) => fault = "none"
    /\ (steps > 0 /\ EdStep /\ UndefinedEd(last.op)) =>
          NoOperation /\ dstate.prefix = "none"

(***************************************************************************)
(* C27.  NONI and interrupt acceptance.                                    *)
(***************************************************************************)
\* C27: a step() that decodes an ED opcode as NONI (ED 80 for one)
\* suppresses interrupt acceptance for the next instruction: disable_int
\* is true when it returns.
C27_NoniDisablesInt ==
    (Returned /\ EdStep /\ UndefinedEd(last.op)) => state.disable_int

(***************************************************************************)
(* C28.  The unprefixed dispatch and the abort.                            *)
(***************************************************************************)
\* the opcodes of the dispatch summary: the groups by field, and the
\* singletons, both index prefixes among them
Listed(op) ==
    LET x == op \div 64
        y == (op \div 8) % 8
        z == op % 8
    IN  \/ x \in {1, 2}
        \/ x = 0 /\ z \in {4, 5, 6}
        \/ x = 3 /\ z \in {0, 6}
        \/ x = 0 /\ z = 0 /\ y >= 4
        \/ x = 0 /\ z \in {1, 3}
        \/ x = 3 /\ z \in {1, 5} /\ y % 2 = 0
        \/ op \in {0, 15, 16, 24, 34, 42, 50, 58, 55, 63, 195, 201, 203,
                   205, 211, 217, 233, 235, 237, 243, 249, 251, 221, 253}

\* the address of the opcode byte the last step() fetched: the byte at PC,
\* or the one after the displacement in an indexed CB instruction
OpcodeAddr ==
    (last.from.state.pc + (IF IndexedCbStep THEN 1 ELSE 0)) % 65536

\* C28: the unprefixed opcodes that decode to a handler are exactly those
\* of the dispatch summary, 0xDD and 0xFD included, and every other byte
\* aborts; on any abort the address reported (last_read_addr) is that of
\* the offending opcode byte, the last byte fetched, and no register other
\* than PC and no memory byte has been modified.
C28_UnprefixedDispatch ==
    /\ (steps > 0 /\ Unprefixed) => (fault # "abort" <=> Listed(last.op))
    /\ fault = "abort" =>
          /\ state.last_read_addr = OpcodeAddr
          /\ at(last.from.image, OpcodeAddr) = last.op
          /\ image = last.from.image
          /\ state.memptr = last.from.state.memptr
          /\ Visible(state) = Visible(last.from.state)

(***************************************************************************)
(* C29, C30.  The disassembler.                                            *)
(***************************************************************************)
\* the byte the next on_read() returns
NextByte == IF stream = <<>> THEN 0 ELSE Head(stream)

\* C29: a disassemble() call that finds 0x00 as the next byte of the
\* instruction stream (no CB or ED prefix pending) emits exactly the text
\* "nop" and consumes exactly that one byte of the stream.
C29_NopDisassembled ==
    [][(steps' = steps + 1 /\ dstate.prefix = "none" /\ NextByte = 0) =>
          /\ fault' = "none"
          /\ lines' = (IF instr.done THEN <<>> ELSE lines)
                         \o <<[text |-> "nop", args |-> <<>>]>>
          /\ consumed' = 1
          /\ stream' = (IF stream = <<>> THEN <<>> ELSE Tail(stream))
          /\ dstate'.prefix = "none" /\ instr'.done]_vars

\* the first call on the stream 00 05 40 printed "nop" and left 05 40
C29_NopPrinted ==
    /\ steps = 1 /\ fault = "none" /\ loaded.prog = <<0, 5, 64>>
    /\ last.op = 0 /\ consumed = 1 /\ stream = <<5, 64>>
    /\ lines = <<[text |-> "nop", args |-> <<>>]>>

\* C30: for every complete instruction, CB-prefixed, ED-prefixed and
\* indexed forms included, the disassemble() calls that consume its bytes
\* emit exactly one output line between them.
C30_OneLinePerInstruction ==
    (steps > 0 /\ fault = "none" /\ instr.done) => Len(lines) = 1

(***************************************************************************)
(* C31.  Value ranges and half registers.                                  *)
(***************************************************************************)
\* the last step() executed LD r,n on a register, without a prefix
LdRegImm == Unprefixed /\ OpX = 0 /\ OpZ = 6 /\ OpY # 6

\* the last step() executed an instruction that stores F and not A: CP,
\* INC/DEC of a register other than A, SCF, CCF, BIT, ADC/SBC HL,rp or a
\* block load
FlagsOnly ==
    \/ Unprefixed /\ (OpX = 2 \/ last.op = 254) /\ OpY = 7
    \/ Unprefixed /\ OpX = 0 /\ OpZ \in {4, 5} /\ OpY # 7
    \/ Unprefixed /\ last.op \in {55, 63}
    \/ CbStep /\ OpX = 1
    \/ last.from.dstate.prefix = "ed" /\ OpX = 1 /\ OpZ = 2
    \/ last.from.dstate.prefix = "ed" /\ OpX = 2 /\ OpZ = 0 /\ OpY >= 4

\* C31: in every reachable state every 16-bit field is in 0..65535; every
\* byte of memory and every value handed to a write cycle is in 0..255;
\* every pair is (high << 8) | low of its half-register accessors; setting
\* one half (set_b, set_a, set_f, and LD r,n through on_set_r) leaves the
\* other half as it was; and an instruction that stores F alone leaves A as
\* it was, so the value it stored was a byte.
C31_RangesAndHalves ==
    /\ \A x \in {state.af, state.bc, state.de, state.hl, state.ix, state.iy,
                 state.alt_bc, state.alt_de, state.alt_hl, state.sp, state.pc,
                 state.ir, state.memptr, state.last_read_addr} :
          /\ x \in 0 .. 65535
          /\ make16(get_high8(x), get_low8(x)) = x
          /\ get_high8(x) \in 0 .. 255 /\ get_low8(x) \in 0 .. 255
    /\ \A a \in DOMAIN image : a \in 0 .. 65535 /\ image[a] \in 1 .. 255
    /\ \A i \in 1 .. Len(bus) :
          bus[i].ev \in {"read", "write", "out"} =>
              bus[i].a \in 0 .. 65535 /\ bus[i].v \in 0 .. 255
    /\ \A n \in {0, 90, 255} :
          /\ set_b(Machine, n).state.bc = 256 * n + Low(state.bc)
          /\ set_a(Machine, n).state.af = 256 * n + Low(state.af)
          /\ set_f(Machine, n).state.af = 256 * High(state.af) + n
    /\ (Returned /\ LdRegImm) =>
          Visible(state) =
              Visible(WithReg8(last.from.state, OpY,
                               at(last.from.image,
                                  (last.from.state.pc + 1) % 65536)))
    /\ (Returned /\ FlagsOnly) => High(state.af) = High(last.from.state.af)

\* LD B,5 was executed with C = 1: BC went from 0x0001 to 0x0501
C31_HighHalfSetLowKept ==
    /\ Returned /\ LdRegImm /\ OpY = 0
    /\ last.from.state.bc = 1 /\ state.bc = 1281

(***************************************************************************)
(* C32.  The stubs: HALT and the 8-bit ADC and SBC.                        *)
(***************************************************************************)
\* the last step() decoded opcode 0x76 with no CB or ED prefix pending
HaltStep == steps > 0 /\ Unprefixed /\ last.op = 118

\* the last step() decoded ADC or SBC with a register, (HL), (IY+d) or an
\* immediate operand
AdcSbcStep ==
    /\ steps > 0 /\ Unprefixed /\ OpY \in {1, 3}
    /\ OpX = 2 \/ (OpX = 3 /\ OpZ = 6)

\* C32: a step() that decodes 0x76 ends in the failed assertion of the HALT
\* slot, having done the opcode fetch and no other bus cycle, with no
\* register or memory byte changed; a step() that decodes an 8-bit ADC or
\* SBC, in the register or the immediate form, ends in a failed assertion
\* with A and F as they were and memory unchanged.
C32_Stubs ==
    /\ HaltStep =>
          /\ fault = "assert"
          /\ consumed = 1
          /\ BusEvents("read") =
                <<[ev |-> "read", a |-> last.from.state.pc, v |-> 118]>>
          /\ BusEvents("write") = <<>>
          /\ ticks = last.from.ticks + 4
          /\ image = last.from.image
          /\ Visible(state) = Visible(last.from.state)
    /\ AdcSbcStep =>
          /\ fault = "assert"
          /\ state.af = last.from.state.af
          /\ BusEvents("write") = <<>>
          /\ image = last.from.image

\* 0x76 was decoded after an FD prefix and the process died in the assertion
C32_HaltAsserted ==
    /\ HaltStep /\ fault = "assert"
    /\ last.from.dstate.next_index_rp = "iy"

(***************************************************************************)
(* C33.  The order of events within a bus cycle.                           *)
(***************************************************************************)
BusAddr(i, a) == bus[i] = [ev |-> "addr", a |-> a, v |-> 0]
BusTick(i, ts) == bus[i].ev = "tick" /\ bus[i].v \in ts
BusLra(i, a) == bus[i] = [ev |-> "lra", a |-> a, v |-> 0]

\* the access at position i is a read cycle of 3, 4 or 5 T-states
ReadCycleAt(i) ==
    /\ i >= 2 /\ i + 2 <= Len(bus)
    /\ BusAddr(i - 1, bus[i].a)
    /\ BusTick(i + 1, {3, 4, 5})
    /\ BusLra(i + 2, bus[i].a)

\* the access at position i is the opcode fetch of the step
FetchCycleAt(i) ==
    /\ i >= 2 /\ i + 4 <= Len(bus)
    /\ bus[i].v = last.op
    /\ BusAddr(i - 1, bus[i].a)
    /\ BusTick(i + 1, {2})
    /\ BusAddr(i + 2, last.from.state.ir)
    /\ BusTick(i + 3, {2})
    /\ BusLra(i + 4, bus[i].a)

\* the access at position i is a write cycle of 3 or 5 T-states
WriteCycleAt(i) ==
    /\ i >= 2 /\ i + 1 <= Len(bus)
    /\ BusAddr(i - 1, bus[i].a)
    /\ BusTick(i + 1, {3, 5})
    /\ i + 2 <= Len(bus) => bus[i + 2].ev # "lra"

\* C33: in the events of every step(), each memory read is a cycle "address
\* bus := addr, access, tick 3/4/5, last_read_addr := addr" or the one opcode
\* fetch "address bus := addr, access, tick 2, address bus := IR, tick 2,
\* last_read_addr := addr"; each write is "address bus := addr, access, tick
\* 3/5" with no store to last_read_addr; last_read_addr is stored nowhere
\* else, so exec cycles and write cycles leave it alone, and after the step
\* it is the address of the last read.
C33_BusCycleOrder ==
    steps > 0 =>
        /\ \A i \in 1 .. Len(bus) :
              /\ bus[i].ev = "read" => ReadCycleAt(i) \/ FetchCycleAt(i)
              /\ bus[i].ev = "write" => WriteCycleAt(i)
              /\ bus[i].ev = "lra" =>
                    \/ i > 2 /\ bus[i - 2].ev = "read" /\ ReadCycleAt(i - 2)
                    \/ i > 4 /\ bus[i - 4].ev = "read" /\ FetchCycleAt(i - 4)
        /\ Cardinality({i \in 1 .. Len(bus) :
                           bus[i].ev = "read" /\ BusTick(i + 1, {2})}) = 1
        /\ Len(BusEvents("addr")) =
              Len(BusEvents("read")) + Len(BusEvents("write")) + 1
        /\ state.last_read_addr =
              BusEvents("read")[Len(BusEvents("read"))].a

\* INC (HL) read and then wrote the byte at 0x4010: the write cycle came
\* last and last_read_addr is the address read
C33_ReadThenWrite ==
    /\ Returned /\ Unprefixed /\ last.op = 52
    /\ last.from.state.last_read_addr = 0
    /\ state.last_read_addr = 16400
    /\ Len(bus) >= 3
    /\ bus[Len(bus) - 1] = [ev |-> "write", a |-> 16400, v |-> 130]
    /\ bus[Len(bus)] = [ev |-> "tick", a |-> 0, v |-> 3]

(***************************************************************************)
(* C34.  The order of the half-register handlers in a pair handler.        *)
(***************************************************************************)
\* the low and the high half of each pair
LowHalf ==
    [af |-> "f", bc |-> "c", de |-> "e", hl |-> "l", ix |-> "ixl",
     iy |-> "iyl"]
HighHalf ==
    [af |-> "a", bc |-> "b", de |-> "d", hl |-> "h", ix |-> "ixh",
     iy |-> "iyh"]

\* C34: every call of a pair handler on_get_<pair> or on_set_<pair> (af, bc,
\* de, hl, ix, iy) calls the handler of the pair's low half first, which
\* returns or is given the low byte of the pair's value, and then the
\* handler of the high half with the high byte; a set leaves the pair with
\* the value given.
C34_LowHalfFirst ==
    calls # <<>> =>
        \E rp \in DOMAIN LowHalf, acc \in {"on_get_", "on_set_"} :
            /\ Len(calls) = 3
            /\ calls[1].h = acc \o rp
            /\ calls[2] = [h |-> acc \o LowHalf[rp], v |-> calls[1].v % 256]
            /\ calls[3] = [h |-> acc \o HighHalf[rp],
                           v |-> calls[1].v \div 256]
            /\ state[rp] = calls[1].v

\* IX was set to 0x12EF and then read: on_get_ixl returned 0xEF before
\* on_get_ixh returned 0x12
C34_IxReadLowFirst ==
    /\ state.ix = 4847
    /\ calls = <<[h |-> "on_get_ix", v |-> 4847],
                 [h |-> "on_get_ixl", v |-> 239],
                 [h |-> "on_get_ixh", v |-> 18]>>

(***************************************************************************)
(* C35.  How far the selection of an index prefix reaches.                 *)
(***************************************************************************)
\* the program loaded starts with FD and the byte b
AfterFD(b) ==
    /\ loaded.preset \in DOMAIN Presets
    /\ Len(loaded.prog) >= 2
    /\ loaded.prog[1] = 253 /\ loaded.prog[2] = b

\* the last step() decoded in table p with the index pair irp
DecodedWith(p, irp) ==
    last.from.dstate.prefix = p /\ dstate.index_rp = irp

\* C35: every step() decodes with the pair pending when it starts, and
\* leaves a selection pending only after fetching FD (IY), or CB (the pair
\* it decoded with); so after FD the next byte is decoded with IY; if that
\* byte is CB the CB-table opcode of the step after is decoded with IY; if
\* it is ED the ED-table opcode is decoded with HL; and the first opcode
\* fetched after the instruction is decoded with HL and no prefix.
C35_IndexAppliesOnce ==
    /\ steps > 0 => dstate.index_rp = last.from.dstate.next_index_rp
    /\ Returned =>
          CASE Unprefixed /\ last.op = 253 ->
                  dstate.prefix = "none" /\ dstate.next_index_rp = "iy"
            [] Unprefixed /\ last.op = 203 ->
                  dstate.prefix = "cb" /\ dstate.next_index_rp = dstate.index_rp
            [] Unprefixed /\ last.op = 237 ->
                  dstate.prefix = "ed" /\ dstate.next_index_rp = "hl"
            [] OTHER -> BaseDecoder(dstate)
    /\ \A b \in 0 .. 255 :
          AfterFD(b) =>
              /\ steps = 2 => DecodedWith("none", "iy")
              /\ (steps = 3 /\ b = 203) => DecodedWith("cb", "iy")
              /\ (steps = 3 /\ b = 237) => DecodedWith("ed", "hl")
              /\ (steps = 3 /\ b \notin {203, 237, 253}) =>
                    DecodedWith("none", "hl")
              /\ (steps = 4 /\ b \in {203, 237}) => DecodedWith("none", "hl")

\* after FD CB 05 C6, SET 0,(IY+5), the fourth step() decoded the next
\* opcode with HL and no prefix
C35_BackToHL ==
    /\ Returned /\ steps = 4
    /\ loaded.prog = <<253, 203, 5, 198>>
    /\ DecodedWith("none", "hl")
    /\ instr.pre = <<>>

(***************************************************************************)
(* C36.  The loops end.                                                    *)
(***************************************************************************)
\* the loop loaded has ended: PC is behind the instruction, and the counter
\* (BC of LDIR and LDDR, B of DJNZ) is 0
LoopEnded ==
    /\ state.pc = 258 /\ instr.done /\ fault = "none"
    /\ loaded.prog[2] \in {176, 184} => state.bc = 0
    /\ loaded.prog[1] = 16 => High(state.bc) = 0

\* C36: from every state in which an LDIR, an LDDR or a DJNZ branching to
\* itself is being executed, whatever BC is (0 included, which counts down
\* through every value), the step() calls that follow reach a state in
\* which PC is at the following instruction and BC (B of DJNZ) is 0.
C36_LoopsEnd ==
    (loaded # NoLoad /\ loaded.prog[2] \in {176, 184, 254}) ~> LoopEnded

\* DJNZ -2 entered with B = 0 fell through after 256 step() calls
C36_DjnzWentAround ==
    /\ LoopEnded /\ loaded.prog = <<16, 254>> /\ loaded.regs.bc = 0
    /\ steps = 256 /\ state.bc = 0

(***************************************************************************)
(* C37.  A block load entered with BC = 0.                                 *)
(***************************************************************************)
\* a block load was loaded with BC = 0
ZeroCount ==
    loaded # NoLoad /\ loaded.prog[1] = 237 /\ loaded.regs.bc = 0

\* address a moved j bytes on in the direction of the block load loaded
Moved(a, j) ==
    IF loaded.prog[2] \in {160, 176} THEN (a + j) % 65536
                                     ELSE (a + 65536 - j) % 65536

\* C37: a block load entered with BC = 0 copies the byte at HL to DE,
\* leaves BC = 0xFFFF and sets P/V; LDI and LDD are then complete, and LDIR
\* and LDDR repeat: the j-th iteration (step() calls 2j - 1 and 2j) makes
\* the j-th copy and leaves BC = 65536 - j, and PC moves past the
\* instruction with the 65536th copy and not before.
C37_WrapAtZero ==
    ZeroCount =>
        /\ steps = 2 =>
              /\ state.bc = 65535
              /\ Bit(state.af, 2) = 1
              /\ BusEvents("write") =
                    <<[ev |-> "write", a |-> loaded.regs.de,
                       v |-> at(loaded.image, loaded.regs.hl)]>>
              /\ at(image, loaded.regs.de) = at(loaded.image, loaded.regs.hl)
              /\ loaded.prog[2] \in {160, 168} => state.pc = 258
        /\ (loaded.prog[2] \in {176, 184} /\ steps > 0) =>
              /\ fault = "none"
              /\ steps <= 131072
              /\ state.bc = (65536 - (steps \div 2)) % 65536
              /\ state.pc = (CASE steps % 2 = 1 -> 257
                               [] steps = 131072 -> 258
                               [] OTHER -> 256)
              /\ BusEvents("write") =
                    IF steps % 2 = 1 THEN <<>>
                    ELSE <<[ev |-> "write",
                            a |-> Moved(loaded.regs.de, steps \div 2 - 1),
                            v |-> at(loaded.image,
                                     Moved(loaded.regs.hl,
                                           steps \div 2 - 1))]>>
              /\ steps % 2 = 0 =>
                    Bit(state.af, 2) = (IF state.bc # 0 THEN 1 ELSE 0)

\* LDIR entered with BC = 0 copied a byte, left BC = 0xFFFF with P/V set
\* and went back to the instruction
C37_LdirWrapped ==
    /\ ZeroCount /\ loaded.prog = <<237, 176>>
    /\ steps = 2 /\ state.bc = 65535 /\ state.pc = 256
    /\ state.af = 32 + 4
    /\ state.hl = 16385 /\ state.de = 16385

(***************************************************************************)
(* C38.  The instructions that leave F alone.                              *)
(***************************************************************************)
\* the last step() executed an 8-bit ALU operation, INC/DEC r, ADD HL,rp,
\* RRCA, SCF, CCF or POP AF; BIT; ADC/SBC HL,rp or a block load
FlagWriter ==
    \/ /\ Unprefixed
       /\ \/ OpX = 2
          \/ OpX = 3 /\ OpZ = 6
          \/ OpX = 0 /\ OpZ \in {4, 5}
          \/ OpX = 0 /\ OpZ = 1 /\ OpY % 2 = 1
          \/ last.op \in {15, 55, 63, 241}
    \/ CbStep /\ OpX = 1
    \/ /\ last.from.dstate.prefix = "ed"
       /\ \/ OpX = 1 /\ OpZ = 2
          \/ OpX = 2 /\ OpZ = 0 /\ OpY >= 4

\* C38: a step() that returns and executed none of those instructions (a
\* load, INC/DEC rp, PUSH, POP of another pair, a jump, call or return,
\* EX DE,HL, EXX, RES, SET, OUT, DI, EI, IM, LD I,A, NOP, or the fetch of a
\* prefix) leaves F as it was.
C38_FlagsKept ==
    (Returned /\ ~FlagWriter) => Low(state.af) = Low(last.from.state.af)

\* DEC BC took BC from 1 to 0 and left F = 0x01, Z clear
C38_DecPairToZero ==
    /\ Returned /\ Unprefixed /\ last.op = 11
    /\ last.from.state.bc = 1 /\ state.bc = 0
    /\ Low(state.af) = 1

(***************************************************************************)
(* C39.  The refresh register.                                             *)
(***************************************************************************)
\* C39: whatever steps have run since the host set the registers, R (the
\* low byte of IR) is the value the host left there: no fetch cycle counts
\* it up and LD I,A replaces the high byte only.
C39_RefreshKept ==
    loaded # NoLoad => Low(state.ir) = Low(Presets[loaded.preset].ir)

\* LD I,A ran with A = 0x5A and R = 0xFF: IR is 0x5AFF
C39_LdIAKeptR ==
    /\ Returned /\ EdStep /\ last.op = 71
    /\ last.from.state.ir = 255 /\ state.ir = 23295

(***************************************************************************)
(* C40.  The handler accessor of the interrupt mode.                       *)
(***************************************************************************)
\* C40: after IM m, for m = 0, 1 and 2, on_get_int_mode() returns what
\* get_int_mode() returns, the mode m itself.
C40_IntModeAccessor ==
    ImStep =>
        /\ get_int_mode(Machine) = decode_int_mode(OpY)
        /\ (IF on_get_int_mode(Machine) THEN 1 ELSE 0) = get_int_mode(Machine)

====
